---- MODULE Spec2Model ----
(***************************************************************************)
(* Model of the location-discovery orchestration pipeline of               *)
(* company-location-discovery: the supervisor loop, the source stages, the *)
(* aggregator, the validator/deduplicator, the enricher, the exporter and  *)
(* the summary node, for the three workflows the repository holds:         *)
(*   "enhanced"   src/api/master_discovery_workflow.py                     *)
(*   "simplified" src/api/simplified_discovery_workflow.py                 *)
(*   "legacy"     src/api/workflows/master_discovery_workflow.py           *)
(* A Python str is a sequence of one-character strings; a Python dict is a *)
(* function whose domain is the set of keys it holds, so that              *)
(* state.get(k) is None exactly when k is not in the domain.               *)
(***************************************************************************)
EXTENDS Integers, Sequences, FiniteSets, TLC

(***************************************************************************)
(* Bounds of the model.                                                    *)
(***************************************************************************)
\* the most candidates all source stages of one run return together
MaxCandidates == 2
\* the longest aggregated list the validator is started on
MaxAggregated == 2
\* the longest aggregated list the iterating validator is started on
MaxIterated == 3

\* the direct calls of a stage on a session that already holds its slot, in
\* one run
MaxReentries == 2

\* the longest raw company URL, not counting a scheme prefix
MaxUrlLen == 3

\* the candidates of a run of the exact-key validators
MaxListed == 3

(***************************************************************************)
(* Python str operations.                                                  *)
(***************************************************************************)
UpperLetters ==
    <<"A", "B", "C", "D", "E", "F", "G", "H", "I", "J", "K", "L", "M",
      "N", "O", "P", "Q", "R", "S", "T", "U", "V", "W", "X", "Y", "Z">>

LowerLetters ==
    <<"a", "b", "c", "d", "e", "f", "g", "h", "i", "j", "k", "l", "m",
      "n", "o", "p", "q", "r", "s", "t", "u", "v", "w", "x", "y", "z">>

Whitespace == {" ", "\t", "\n"}

IsUpper(c) == \E i \in 1..26 : UpperLetters[i] = c

IsLower(c) == \E i \in 1..26 : LowerLetters[i] = c

IsLetter(c) == IsUpper(c) \/ IsLower(c)

LowerChar(c) ==
    IF IsUpper(c)
    THEN LowerLetters[CHOOSE i \in 1..26 : UpperLetters[i] = c]
    ELSE c

UpperChar(c) ==
    IF IsLower(c)
    THEN UpperLetters[CHOOSE i \in 1..26 : LowerLetters[i] = c]
    ELSE c

\* s.lower()
lower(s) == IF s = <<>> THEN <<>> ELSE [i \in 1..Len(s) |-> LowerChar(s[i])]

\* s.strip()
strip(s) ==
    LET keep == {i \in 1..Len(s) : s[i] \notin Whitespace}
    IN  IF keep = {} THEN <<>>
        ELSE LET first == CHOOSE i \in keep : \A j \in keep : i <= j
                 last  == CHOOSE i \in keep : \A j \in keep : j <= i
             IN  SubSeq(s, first, last)

\* s.title(): a letter is upper-cased when it does not follow a letter and
\* lower-cased when it does
title(s) ==
    IF s = <<>> THEN <<>>
    ELSE [i \in 1..Len(s) |->
            IF i = 1 \/ ~IsLetter(s[i - 1]) THEN UpperChar(s[i])
                                             ELSE LowerChar(s[i])]

\* s[:n]
prefix(s, n) == SubSeq(s, 1, IF Len(s) < n THEN Len(s) ELSE n)

\* sub in s
contains(s, sub) ==
    \E i \in 0..(Len(s) - Len(sub)) : SubSeq(s, i + 1, i + Len(sub)) = sub

\* the positions of the separator sep in s
SepPositions(s, sep) == {i \in 1..Len(s) : s[i] = sep}

\* len(s.split(sep)) for a one-character separator
SplitLen(s, sep) == Cardinality(SepPositions(s, sep)) + 1

\* s.split(sep)[0] and s.split(sep)[1] when the split has two parts
SplitFirst(s, sep) ==
    LET p == CHOOSE i \in SepPositions(s, sep) : TRUE IN SubSeq(s, 1, p - 1)

SplitSecond(s, sep) ==
    LET p == CHOOSE i \in SepPositions(s, sep) : TRUE IN SubSeq(s, p + 1, Len(s))

(***************************************************************************)
(* String literals of the source and of the inputs of the model.           *)
(***************************************************************************)
str_unknown_location ==
    <<"u", "n", "k", "n", "o", "w", "n", " ", "l", "o", "c", "a", "t", "i", "o", "n">>

str_test_location ==
    <<"t", "e", "s", "t", " ", "l", "o", "c", "a", "t", "i", "o", "n">>

str_microsoft ==
    <<"m", "i", "c", "r", "o", "s", "o", "f", "t">>

str_apple ==
    <<"a", "p", "p", "l", "e">>

str_google ==
    <<"g", "o", "o", "g", "l", "e">>

str_Acme ==
    <<"A", "c", "m", "e">>

str_Apple_Inc ==
    <<"A", "p", "p", "l", "e", " ", "I", "n", "c">>

str_Austin ==
    <<"A", "u", "s", "t", "i", "n">>

str_austin_trailing ==
    <<"a", "u", "s", "t", "i", "n", " ">>

str_Dallas ==
    <<"D", "a", "l", "l", "a", "s">>

str_blank ==
    <<" ", " ">>

str_HQ ==
    <<"H", "Q">>

str_HQ_Office ==
    <<"H", "Q", " ", "O", "f", "f", "i", "c", "e">>

str_Headquarters ==
    <<"H", "e", "a", "d", "q", "u", "a", "r", "t", "e", "r", "s">>

str_Headquarters_Office ==
    <<"H", "e", "a", "d", "q", "u", "a", "r", "t", "e", "r", "s", " ", "O", "f", "f", "i", "c", "e">>

str_Headquarters_Office_Building ==
    <<"H", "e", "a", "d", "q", "u", "a", "r", "t", "e", "r", "s", " ", "O", "f", "f", "i", "c", "e", " ", "B", "u", "i", "l", "d", "i", "n", "g">>

str_Building ==
    <<"B", "u", "i", "l", "d", "i", "n", "g">>

str_Test_Location ==
    <<"T", "e", "s", "t", " ", "L", "o", "c", "a", "t", "i", "o", "n">>

str_Office ==
    <<"O", "f", "f", "i", "c", "e">>

str_Main_St ==
    <<"1", " ", "M", "a", "i", "n", " ", "S", "t">>

str_Subsidiary ==
    <<" ", "S", "u", "b", "s", "i", "d", "i", "a", "r", "y">>

str_Delaware ==
    <<"D", "e", "l", "a", "w", "a", "r", "e">>

str_dash ==
    <<" ", "-", " ">>

str_LOC ==
    <<"L", "O", "C", "_">>

(***************************************************************************)
(* Location candidates: the dicts the source stages emit.  The model keeps *)
(* the fields the pipeline reads: city, name, address and source.          *)
(***************************************************************************)
Location(city, name, address, source) ==
    [city |-> city, name |-> name, address |-> address, source |-> source]

(***************************************************************************)
(* Validator of the enhanced workflow: EnhancedDeduplicationNode.          *)
(***************************************************************************)
fake_indicators ==
    { <<"l", "o", "c", "a", "t", "i", "o", "n", " ", "s", "e", "a", "r", "c", "h", " ", "a", "t", "t", "e", "m", "p", "t", "e", "d">>,
      <<"n", "o", " ", "r", "e", "s", "u", "l", "t", "s">>,
      <<"v", "a", "r", "i", "o", "u", "s", " ", "s", "o", "u", "r", "c", "e", "s", " ", "c", "h", "e", "c", "k", "e", "d">>,
      <<"s", "e", "a", "r", "c", "h", " ", "p", "e", "r", "f", "o", "r", "m", "e", "d">>,
      str_unknown_location,
      str_test_location,
      <<"e", "x", "a", "m", "p", "l", "e", " ", "l", "o", "c", "a", "t", "i", "o", "n">>,
      <<"s", "a", "m", "p", "l", "e", " ", "l", "o", "c", "a", "t", "i", "o", "n">>,
      <<"d", "u", "m", "m", "y", " ", "l", "o", "c", "a", "t", "i", "o", "n">> }

\* the text the fake patterns are looked up in: f"{city} {name} {address}"
full_text(loc) ==
    strip(lower(loc.city)) \o <<" ">> \o strip(lower(loc.name))
        \o <<" ">> \o strip(lower(loc.address))

\* the test of the loop body of _filter_fake_locations: TRUE when loc is kept
IsRealLocation(loc) ==
    LET city == strip(lower(loc.city))
    IN  /\ ~(city = <<>> \/ Len(city) < 2)
        /\ ~(\E indicator \in fake_indicators : contains(full_text(loc), indicator))

_filter_fake_locations(locations) == SelectSeq(locations, IsRealLocation)

\* key = f"{city}_{name[:20]}"
LocationKey(loc) ==
    strip(lower(loc.city)) \o <<"_">> \o prefix(strip(lower(loc.name)), 20)

\* _are_similar_locations comparing the keys for equality only
_are_similar_locations_exact(key1, key2) == key1 = key2

\* _are_similar_locations taking any two keys of one city for similar
_are_similar_locations_by_city(key1, key2) ==
    IF key1 = key2 THEN TRUE
    ELSE IF SplitLen(key1, "_") = 2 /\ SplitLen(key2, "_") = 2
         THEN SplitFirst(key1, "_") = SplitFirst(key2, "_")
         ELSE FALSE

_are_similar_locations(key1, key2) ==
    IF key1 = key2 THEN TRUE
    ELSE IF SplitLen(key1, "_") = 2 /\ SplitLen(key2, "_") = 2
         THEN LET city1 == SplitFirst(key1, "_")
                  name1 == SplitSecond(key1, "_")
                  city2 == SplitFirst(key2, "_")
                  name2 == SplitSecond(key2, "_")
              IN  IF city1 = city2 /\ Len(name1) > 3 /\ Len(name2) > 3
                  THEN contains(name2, name1) \/ contains(name1, name2)
                  ELSE FALSE
         ELSE FALSE

\* the loop of _deduplicate_locations from position i on, with the list
\* unique and the set processed built so far
RECURSIVE DeduplicateFrom(_, _, _, _)
DeduplicateFrom(locations, i, unique, processed) ==
    IF i > Len(locations) THEN unique
    ELSE LET loc == locations[i]
             key == LocationKey(loc)
             is_duplicate ==
                 \E existing_key \in processed :
                     _are_similar_locations(key, existing_key)
         IN  IF is_duplicate
             THEN DeduplicateFrom(locations, i + 1, unique, processed)
             ELSE DeduplicateFrom(locations, i + 1, Append(unique, loc),
                                  processed \cup {key})

\* _deduplicate_locations keeping every location
_deduplicate_locations_keeping_all(locations) == locations

_deduplicate_locations(locations) == DeduplicateFrom(locations, 1, <<>>, {})

\* one enhanced_loc of _enhance_location_data
EnhancedLoc(loc) ==
    [name |-> strip(loc.name), address |-> strip(loc.address),
     city |-> strip(loc.city), source |-> loc.source]

_enhance_location_data(locations) ==
    [i \in 1..Len(locations) |-> EnhancedLoc(locations[i])]

\* the three steps of EnhancedDeduplicationNode.run
EnhancedDeduplicate(all_locations) ==
    _enhance_location_data(
        _deduplicate_locations(_filter_fake_locations(all_locations)))

(***************************************************************************)
(* Validator of the simplified workflow: SimplifiedDeduplicationNode.      *)
(***************************************************************************)
\* cleaned_loc of _basic_deduplicate
CleanedLoc(loc) ==
    [name |-> strip(loc.name), address |-> strip(loc.address),
     city |-> title(strip(lower(loc.city))), source |-> loc.source]

RECURSIVE BasicDeduplicateFrom(_, _, _, _)
BasicDeduplicateFrom(locations, i, unique, seen) ==
    IF i > Len(locations) THEN unique
    ELSE LET loc  == locations[i]
             city == strip(lower(loc.city))
             key  == LocationKey(loc)
         IN  IF city = <<>> \/ Len(city) < 2
             THEN BasicDeduplicateFrom(locations, i + 1, unique, seen)
             ELSE IF key \notin seen
                  THEN BasicDeduplicateFrom(locations, i + 1,
                           Append(unique, CleanedLoc(loc)), seen \cup {key})
                  ELSE BasicDeduplicateFrom(locations, i + 1, unique, seen)

_basic_deduplicate(locations) == BasicDeduplicateFrom(locations, 1, <<>>, {})

(***************************************************************************)
(* Validator of the legacy workflow: DeduplicationNode.                    *)
(***************************************************************************)
\* key = (city.lower(), name.lower()[:30])
LegacyKey(loc) == <<lower(loc.city), prefix(lower(loc.name), 30)>>

RECURSIVE LegacyDeduplicateFrom(_, _, _, _)
LegacyDeduplicateFrom(locations, i, unique, seen) ==
    IF i > Len(locations) THEN unique
    ELSE LET loc == locations[i]
             key == LegacyKey(loc)
         IN  IF key \notin seen /\ key[1] # <<>>
             THEN LegacyDeduplicateFrom(locations, i + 1,
                      Append(unique, loc), seen \cup {key})
             ELSE LegacyDeduplicateFrom(locations, i + 1, unique, seen)

LegacyDeduplicate(locations) == LegacyDeduplicateFrom(locations, 1, <<>>, {})

(***************************************************************************)
(* clean_and_validate_url, the same function in the three workflow files.  *)
(***************************************************************************)
str_http ==
    <<"h", "t", "t", "p", ":", "/", "/">>

str_https ==
    <<"h", "t", "t", "p", "s", ":", "/", "/">>

str_acme_com ==
    <<"a", "c", "m", "e", ".", "c", "o", "m">>

\* s.startswith(p)
startswith(s, p) == Len(s) >= Len(p) /\ SubSeq(s, 1, Len(p)) = p

\* urlparse(url).netloc for a url that starts with http:// or https://: the
\* text between the "//" and the next "/", "?" or "#"
netloc(url) ==
    LET start == IF startswith(url, str_https) THEN Len(str_https) + 1
                                               ELSE Len(str_http) + 1
        stops == {i \in start..Len(url) : url[i] \in {"/", "?", "#"}}
        stop  == IF stops = {} THEN Len(url) + 1
                 ELSE CHOOSE i \in stops : \A j \in stops : i <= j
    IN  SubSeq(url, start, stop - 1)

\* urlparse raises ValueError on a netloc with an unbalanced bracket
urlparse_raises(url) ==
    LET host == netloc(url)
    IN  (\E i \in 1..Len(host) : host[i] = "[")
            # (\E i \in 1..Len(host) : host[i] = "]")

\* clean_and_validate_url adding the protocol to every url
clean_and_validate_url_always_prefixing(raw) ==
    IF raw = <<>> THEN <<>>
    ELSE LET url == str_https \o strip(raw)
         IN  IF ~urlparse_raises(url) /\ netloc(url) # <<>> THEN url ELSE <<>>

clean_and_validate_url(raw) ==
    IF raw = <<>> THEN <<>>
    ELSE LET stripped == strip(raw)
         IN  IF lower(stripped) \in
                    { <<"n", "a", "n">>, <<"n", "o", "n", "e">>,
                      <<"n", "u", "l", "l">>, <<>>, <<"n", "/", "a">>,
                      <<"n", "a">> }
             THEN <<>>
             ELSE LET url == IF startswith(stripped, str_http)
                                  \/ startswith(stripped, str_https)
                             THEN stripped
                             ELSE str_https \o stripped
                  IN  IF ~urlparse_raises(url) /\ netloc(url) # <<>>
                      THEN url
                      ELSE <<>>

(***************************************************************************)
(* Python dict operations on the DiscoveryState.                           *)
(***************************************************************************)
\* state.get(key) is not None
Has(d, key) == key \in DOMAIN d

\* d[key] = value
Put(d, key, value) ==
    [k \in DOMAIN d \cup {key} |-> IF k = key THEN value ELSE d[k]]

\* d[key].append(value)
AppendTo(d, key, value) == [d EXCEPT ![key] = Append(@, value)]

\* state.get(key, [])
GetList(d, key) == IF Has(d, key) THEN d[key] ELSE <<>>

\* AIMessage(content=f"{text} {n} ...") and AIMessage(content=text)
CountMessage(text, n) == <<text, n>>

TextMessage(text) == <<text>>

(***************************************************************************)
(* Source stages.  What a stage's external collaborator does is the input  *)
(* of the model: kind is "ok" (the collaborator returns the list locs),    *)
(* "disabled" (no client, no API key, no language model or no usable URL:  *)
(* the stage returns before its try block) or "raised" (an exception       *)
(* reaches the stage's except clause).                                     *)
(***************************************************************************)
Kinds == {"ok", "disabled", "raised"}

\* SourceStageRun with an except clause that leaves the slot absent
SourceStageRun_slot_left_absent(st, key, kind, locs, found_text, disabled_messages, error_entries) ==
    IF Has(st, key) THEN st
    ELSE IF kind = "disabled"
         THEN [Put(st, key, <<>>) EXCEPT !.messages = @ \o disabled_messages]
         ELSE IF kind = "ok"
              THEN [Put(st, key, locs) EXCEPT
                       !.messages = @ \o found_text]
              ELSE [st EXCEPT !.errors = @ \o error_entries]

\* the run method shared by the source stages: the presence guard, the
\* early return of a disabled stage, the try body and the except clause
SourceStageRun(st, key, kind, locs, found_text, disabled_messages, error_entries) ==
    IF Has(st, key) THEN st
    ELSE IF kind = "disabled"
         THEN [Put(st, key, <<>>) EXCEPT !.messages = @ \o disabled_messages]
         ELSE IF kind = "ok"
              THEN [Put(st, key, locs) EXCEPT
                       !.messages = @ \o found_text]
              ELSE [Put(st, key, <<>>) EXCEPT !.errors = @ \o error_entries]

(***************************************************************************)
(* The enhanced workflow: src/api/master_discovery_workflow.py.            *)
(***************************************************************************)
SuperEnhancedGoogleMapsAgentNode_run(st, kind, locs) ==
    SourceStageRun(st, "google_maps_results", kind, locs,
        <<CountMessage("Google Maps found", Len(locs))>>,
        <<TextMessage("Google Maps search skipped - no API key provided")>>,
        <<>>)

SuperEnhancedTavilySearchAgentNode_run(st, kind, locs) ==
    SourceStageRun(st, "tavily_search_results", kind, locs,
        <<CountMessage("Tavily found", Len(locs))>>, <<>>, <<>>)

\* a web scraper that stores the website it found as the session's company_url
SuperEnhancedWebScraperAgentNode_run_storing_website(st, kind, locs) ==
    LET next == SourceStageRun(st, "web_scraper_results", kind, locs,
                    <<CountMessage("Web scraper found", Len(locs))>>, <<>>, <<>>)
    IN  IF next # st /\ kind = "ok" /\ st.company_url = <<>>
        THEN Put(next, "company_url", str_https \o str_acme_com)
        ELSE next

SuperEnhancedWebScraperAgentNode_run(st, kind, locs) ==
    SourceStageRun(st, "web_scraper_results", kind, locs,
        <<CountMessage("Web scraper found", Len(locs))>>, <<>>, <<>>)

SECFilingsAgentNode_run(st, kind, locs) ==
    SourceStageRun(st, "sec_filing_results", kind, locs,
        <<CountMessage("SEC filings found", Len(locs))>>, <<>>, <<>>)

MultiSearchEngineAgentNode_run(st, kind, locs) ==
    SourceStageRun(st, "multi_search_results", kind, locs,
        <<CountMessage("Multi-search found", Len(locs))>>, <<>>, <<>>)

IndustrySpecificAgentNode_run(st, kind, locs) ==
    SourceStageRun(st, "industry_specific_results", kind, locs,
        <<CountMessage("Industry-specific search found", Len(locs))>>, <<>>, <<>>)

EnhancedBusinessDirectoryAgentNode_run(st, kind, locs) ==
    SourceStageRun(st, "directory_results", kind, locs,
        <<CountMessage("Business directories found", Len(locs))>>, <<>>, <<>>)

\* all_locations.extend(locations) for every source of sources, in order
RECURSIVE Collect(_, _, _)
Collect(st, sources, i) ==
    IF i > Len(sources) THEN <<>>
    ELSE GetList(st, sources[i]) \o Collect(st, sources, i + 1)

\* the list sources without the directory stage
EnhancedAggregatorSources_without_directory ==
    <<"google_maps_results", "tavily_search_results", "web_scraper_results",
      "sec_filing_results", "multi_search_results", "industry_specific_results">>

\* the list sources of AggregatorNode.run
EnhancedAggregatorSources ==
    <<"google_maps_results", "tavily_search_results", "web_scraper_results",
      "directory_results", "sec_filing_results", "multi_search_results",
      "industry_specific_results">>

\* an aggregator that starts the log again with its own notice
AggregatorNode_run_rewriting_log(st) ==
    IF Has(st, "all_locations") THEN st
    ELSE LET all_locations == Collect(st, EnhancedAggregatorSources, 1)
         IN  [Put(st, "all_locations", all_locations) EXCEPT
                 !.messages = <<CountMessage("Aggregated total locations",
                                             Len(all_locations))>>]

\* an aggregator without its presence guard
AggregatorNode_run_unguarded(st) ==
    LET all_locations == Collect(st, EnhancedAggregatorSources, 1)
    IN  [Put(st, "all_locations", all_locations) EXCEPT
            !.messages = Append(@,
                CountMessage("Aggregated total locations", Len(all_locations)))]

AggregatorNode_run(st) ==
    IF Has(st, "all_locations") THEN st
    ELSE LET all_locations == Collect(st, EnhancedAggregatorSources, 1)
         IN  [Put(st, "all_locations", all_locations) EXCEPT
                 !.messages = Append(@,
                     CountMessage("Aggregated total locations", Len(all_locations)))]

\* a validator that also overwrites the aggregated list with its survivors
EnhancedDeduplicationNode_run_in_place(st) ==
    IF Has(st, "deduplicated_locations") THEN st
    ELSE LET enhanced_locations == EnhancedDeduplicate(GetList(st, "all_locations"))
         IN  [Put(Put(st, "deduplicated_locations", enhanced_locations),
                  "all_locations", enhanced_locations) EXCEPT
                 !.messages = Append(@,
                     CountMessage("Deduplicated to unique locations",
                                  Len(enhanced_locations)))]

EnhancedDeduplicationNode_run(st) ==
    IF Has(st, "deduplicated_locations") THEN st
    ELSE LET enhanced_locations == EnhancedDeduplicate(GetList(st, "all_locations"))
         IN  [Put(st, "deduplicated_locations", enhanced_locations) EXCEPT
                 !.messages = Append(@,
                     CountMessage("Deduplicated to unique locations",
                                  Len(enhanced_locations)))]

\* hq_info of _get_known_headquarters
KnownHeadquarters(name, address, city) ==
    Location(city, name, address, "known_headquarters")

\* _get_known_headquarters with an empty table
_get_known_headquarters_empty(company_name) == <<>>

\* _get_known_headquarters(company_name): the empty sequence stands for None,
\* a one-element sequence for the record found
_get_known_headquarters(company_name) ==
    LET company_lower == lower(company_name)
    IN  IF contains(company_lower, str_microsoft)
        THEN <<KnownHeadquarters(
                  <<"M", "i", "c", "r", "o", "s", "o", "f", "t", " ", "C", "o", "r", "p", "o", "r", "a", "t", "i", "o", "n", " ", "H", "e", "a", "d", "q", "u", "a", "r", "t", "e", "r", "s">>,
                  <<"1", " ", "M", "i", "c", "r", "o", "s", "o", "f", "t", " ", "W", "a", "y">>,
                  <<"R", "e", "d", "m", "o", "n", "d">>)>>
        ELSE IF contains(company_lower, str_apple)
        THEN <<KnownHeadquarters(
                  <<"A", "p", "p", "l", "e", " ", "I", "n", "c", ".", " ", "H", "e", "a", "d", "q", "u", "a", "r", "t", "e", "r", "s">>,
                  <<"1", " ", "A", "p", "p", "l", "e", " ", "P", "a", "r", "k", " ", "W", "a", "y">>,
                  <<"C", "u", "p", "e", "r", "t", "i", "n", "o">>)>>
        ELSE IF contains(company_lower, str_google)
        THEN <<KnownHeadquarters(
                  <<"G", "o", "o", "g", "l", "e", " ", "L", "L", "C", " ", "H", "e", "a", "d", "q", "u", "a", "r", "t", "e", "r", "s">>,
                  <<"1", "6", "0", "0", " ", "A", "m", "p", "h", "i", "t", "h", "e", "a", "t", "r", "e", " ", "P", "a", "r", "k", "w", "a", "y">>,
                  <<"M", "o", "u", "n", "t", "a", "i", "n", " ", "V", "i", "e", "w">>)>>
        ELSE <<>>

Digits == <<"0", "1", "2", "3", "4", "5", "6", "7", "8", "9">>

\* f"LOC_{i:03d}" for i < 1000
LocationId(i) ==
    str_LOC \o <<Digits[((i \div 100) % 10) + 1], Digits[((i \div 10) % 10) + 1],
                 Digits[(i % 10) + 1]>>

\* enriched_loc of LocationEnrichmentNode.run for the i-th location
EnrichedLoc(loc, i, company_name) ==
    [city |-> loc.city, address |-> loc.address, source |-> loc.source,
     location_id |-> LocationId(i),
     name |-> IF loc.name = <<>> THEN company_name \o str_dash \o loc.city
                                 ELSE loc.name]

Enrich(locations, company_name) ==
    [i \in 1..Len(locations) |-> EnrichedLoc(locations[i], i, company_name)]

\* an enricher that publishes the records it was given as final_locations and
\* the completed ones as enriched_locations
LocationEnrichmentNode_run_final_unenriched(st) ==
    IF Has(st, "enriched_locations") THEN st
    ELSE LET deduplicated == GetList(st, "deduplicated_locations")
             known_hq  == _get_known_headquarters(st.company_name)
             locations == IF deduplicated = <<>> THEN known_hq ELSE deduplicated
             enriched == Enrich(locations, st.company_name)
         IN  [Put(Put(st, "enriched_locations", enriched),
                  "final_locations", locations) EXCEPT
                 !.messages = Append(@, CountMessage("Enriched locations", Len(enriched)))]

\* an enricher that completes the records of deduplicated_locations in place
\* instead of copying them
LocationEnrichmentNode_run_in_place(st) ==
    IF Has(st, "enriched_locations") THEN st
    ELSE LET deduplicated == GetList(st, "deduplicated_locations")
             known_hq  == _get_known_headquarters(st.company_name)
             locations == IF deduplicated = <<>> THEN known_hq ELSE deduplicated
             enriched == Enrich(locations, st.company_name)
         IN  [Put(Put(Put(st, "deduplicated_locations", enriched),
                      "enriched_locations", enriched),
                  "final_locations", enriched) EXCEPT
                 !.messages = Append(@, CountMessage("Enriched locations", Len(enriched)))]

\* an enricher that publishes final_locations without enriched_locations, the
\* slot its guard and the supervisor read
LocationEnrichmentNode_run_final_only(st) ==
    IF Has(st, "enriched_locations") THEN st
    ELSE LET deduplicated == GetList(st, "deduplicated_locations")
             known_hq  == _get_known_headquarters(st.company_name)
             locations == IF deduplicated = <<>> THEN known_hq ELSE deduplicated
             enriched == Enrich(locations, st.company_name)
         IN  [Put(st, "final_locations", enriched) EXCEPT
                 !.messages = Append(@, CountMessage("Enriched locations", Len(enriched)))]

LocationEnrichmentNode_run(st) ==
    IF Has(st, "enriched_locations") THEN st
    ELSE LET deduplicated == GetList(st, "deduplicated_locations")
             known_hq  == _get_known_headquarters(st.company_name)
             locations == IF deduplicated = <<>> THEN known_hq ELSE deduplicated
             note == IF deduplicated # <<>> THEN <<>>
                     ELSE IF known_hq # <<>>
                          THEN <<TextMessage("Added known corporate headquarters")>>
                          ELSE <<TextMessage("No locations found by any agents")>>
             enriched == Enrich(locations, st.company_name)
         IN  [Put(Put(st, "enriched_locations", enriched),
                  "final_locations", enriched) EXCEPT
                 !.messages = @ \o note
                     \o <<CountMessage("Enriched locations", Len(enriched))>>]

\* a dict is truthy when it is present and not empty: if state.get(key)
Truthy(d, key) == Has(d, key) /\ d[key] # <<>>

\* EnhancedExportNode.run; excel tells whether the optional Excel export
\* succeeded
EnhancedExportNode_run(st, excel) ==
    IF Truthy(st, "export_files") THEN st
    ELSE LET export_files == <<"csv", "json", "summary_report">>
                                 \o (IF excel THEN <<"excel">> ELSE <<>>)
         IN  [Put(st, "export_files", export_files) EXCEPT
                 !.messages = Append(@,
                     CountMessage("Enhanced export completed", Len(export_files)))]

\* the dict summary of SummaryNode.run
EnhancedSummary(st) ==
    [company |-> st.company_name, url |-> st.company_url,
     total_locations |-> Len(GetList(st, "final_locations")),
     sources_used |->
        [google_maps |-> Len(GetList(st, "google_maps_results")),
         tavily |-> Len(GetList(st, "tavily_search_results")),
         website |-> Len(GetList(st, "web_scraper_results")),
         directory |-> Len(GetList(st, "directory_results")),
         sec_filings |-> Len(GetList(st, "sec_filing_results")),
         multi_search |-> Len(GetList(st, "multi_search_results")),
         industry_specific |-> Len(GetList(st, "industry_specific_results"))],
     url_processed |-> clean_and_validate_url(st.company_url) # <<>>]

\* SummaryNode.run without the assignment of status
SummaryNode_run_without_status(st, llm) ==
    IF Truthy(st, "summary") THEN st
    ELSE LET done == Put(st, "summary", EnhancedSummary(st))
         IN  IF llm = "none" THEN done
             ELSE IF llm = "ok"
                  THEN AppendTo(done, "messages", TextMessage("summary"))
                  ELSE AppendTo(done, "messages",
                           TextMessage("Enhanced discovery completed"))

\* SummaryNode.run taking a run that found no location for failed
SummaryNode_run_failed_when_empty(st, llm) ==
    IF Truthy(st, "summary") THEN st
    ELSE LET status == IF GetList(st, "final_locations") = <<>> THEN "failed"
                                                              ELSE "completed"
             done == Put(Put(st, "summary", EnhancedSummary(st)),
                         "status", status)
         IN  IF llm = "none" THEN done
             ELSE IF llm = "ok"
                  THEN AppendTo(done, "messages", TextMessage("summary"))
                  ELSE AppendTo(done, "messages",
                           TextMessage("Enhanced discovery completed"))

\* SummaryNode.run; llm is "none" (no language model), "ok" (the model
\* answers) or "raised" (the call fails and the fallback message is used)
SummaryNode_run(st, llm) ==
    IF Truthy(st, "summary") THEN st
    ELSE LET done == Put(Put(st, "summary", EnhancedSummary(st)),
                         "status", "completed")
         IN  IF llm = "none" THEN done
             ELSE IF llm = "ok"
                  THEN AppendTo(done, "messages", TextMessage("summary"))
                  ELSE AppendTo(done, "messages",
                           TextMessage("Enhanced discovery completed"))

\* the if/elif chain with the directory stage tested before the SEC stage
EnhancedNextAgent_directory_first(st) ==
    IF ~Has(st, "google_maps_results") THEN "google_maps"
    ELSE IF ~Has(st, "tavily_search_results") THEN "tavily_search"
    ELSE IF ~Has(st, "web_scraper_results") THEN "web_scraper"
    ELSE IF ~Has(st, "directory_results") THEN "directory"
    ELSE IF ~Has(st, "sec_filing_results") THEN "sec_filing"
    ELSE IF ~Has(st, "multi_search_results") THEN "multi_search"
    ELSE IF ~Has(st, "industry_specific_results") THEN "industry_specific"
    ELSE IF ~Has(st, "all_locations") THEN "aggregator"
    ELSE IF ~Has(st, "deduplicated_locations") THEN "deduplication"
    ELSE IF ~Has(st, "enriched_locations") THEN "enricher"
    ELSE IF ~Has(st, "export_files") THEN "exporter"
    ELSE IF ~Has(st, "summary") THEN "summary"
    ELSE "end"

\* the if/elif chain with the aggregator tested before the directory stage
EnhancedNextAgent_aggregator_early(st) ==
    IF ~Has(st, "google_maps_results") THEN "google_maps"
    ELSE IF ~Has(st, "tavily_search_results") THEN "tavily_search"
    ELSE IF ~Has(st, "web_scraper_results") THEN "web_scraper"
    ELSE IF ~Has(st, "sec_filing_results") THEN "sec_filing"
    ELSE IF ~Has(st, "multi_search_results") THEN "multi_search"
    ELSE IF ~Has(st, "industry_specific_results") THEN "industry_specific"
    ELSE IF ~Has(st, "all_locations") THEN "aggregator"
    ELSE IF ~Has(st, "directory_results") THEN "directory"
    ELSE IF ~Has(st, "deduplicated_locations") THEN "deduplication"
    ELSE IF ~Has(st, "enriched_locations") THEN "enricher"
    ELSE IF ~Has(st, "export_files") THEN "exporter"
    ELSE IF ~Has(st, "summary") THEN "summary"
    ELSE "end"

\* the if/elif chain of EnhancedSupervisorNode.run
EnhancedNextAgent(st) ==
    IF ~Has(st, "google_maps_results") THEN "google_maps"
    ELSE IF ~Has(st, "tavily_search_results") THEN "tavily_search"
    ELSE IF ~Has(st, "web_scraper_results") THEN "web_scraper"
    ELSE IF ~Has(st, "sec_filing_results") THEN "sec_filing"
    ELSE IF ~Has(st, "multi_search_results") THEN "multi_search"
    ELSE IF ~Has(st, "industry_specific_results") THEN "industry_specific"
    ELSE IF ~Has(st, "directory_results") THEN "directory"
    ELSE IF ~Has(st, "all_locations") THEN "aggregator"
    ELSE IF ~Has(st, "deduplicated_locations") THEN "deduplication"
    ELSE IF ~Has(st, "enriched_locations") THEN "enricher"
    ELSE IF ~Has(st, "export_files") THEN "exporter"
    ELSE IF ~Has(st, "summary") THEN "summary"
    ELSE "end"

\* a supervisor that sends a finished session to the summary once more
EnhancedSupervisorNode_run_summary_again(st) ==
    Put(st, "next_agent",
        IF EnhancedNextAgent(st) = "end" THEN "summary" ELSE EnhancedNextAgent(st))

EnhancedSupervisorNode_run(st) == Put(st, "next_agent", EnhancedNextAgent(st))

(***************************************************************************)
(* The simplified workflow: src/api/simplified_discovery_workflow.py.      *)
(* Its nodes write no messages.                                            *)
(***************************************************************************)
SimplifiedGoogleMapsAgentNode_run(st, kind, locs) ==
    SourceStageRun(st, "google_maps_results", kind, locs, <<>>, <<>>, <<>>)

SimplifiedTavilySearchAgentNode_run(st, kind, locs) ==
    SourceStageRun(st, "tavily_search_results", kind, locs, <<>>, <<>>, <<>>)

SimplifiedWebScraperAgentNode_run(st, kind, locs) ==
    SourceStageRun(st, "web_scraper_results", kind, locs, <<>>, <<>>, <<>>)

SimplifiedBusinessDirectoryAgentNode_run(st, kind, locs) ==
    SourceStageRun(st, "directory_results", kind, locs, <<>>, <<>>, <<>>)

\* the list sources of SimplifiedAggregatorNode.run
SimplifiedAggregatorSources ==
    <<"google_maps_results", "tavily_search_results", "web_scraper_results",
      "directory_results">>

SimplifiedAggregatorNode_run(st) ==
    IF Has(st, "all_locations") THEN st
    ELSE Put(st, "all_locations", Collect(st, SimplifiedAggregatorSources, 1))

SimplifiedDeduplicationNode_run(st) ==
    IF Has(st, "deduplicated_locations") THEN st
    ELSE Put(st, "deduplicated_locations",
             _basic_deduplicate(GetList(st, "all_locations")))

SimplifiedEnrichmentNode_run(st) ==
    IF Has(st, "enriched_locations") THEN st
    ELSE LET enriched == Enrich(GetList(st, "deduplicated_locations"),
                                st.company_name)
         IN  Put(Put(st, "enriched_locations", enriched),
                 "final_locations", enriched)

SimplifiedExportNode_run(st) ==
    IF Truthy(st, "export_files") THEN st
    ELSE Put(st, "export_files", <<"json">>)

\* the dict summary of SimplifiedSummaryNode.run
SimplifiedSummary(st) ==
    [company |-> st.company_name, url |-> st.company_url,
     total_locations |-> Len(GetList(st, "final_locations")),
     sources_used |->
        [google_maps |-> Len(GetList(st, "google_maps_results")),
         tavily |-> Len(GetList(st, "tavily_search_results")),
         website |-> Len(GetList(st, "web_scraper_results")),
         directory |-> Len(GetList(st, "directory_results"))]]

SimplifiedSummaryNode_run(st) ==
    IF Truthy(st, "summary") THEN st
    ELSE Put(Put(st, "summary", SimplifiedSummary(st)), "status", "completed")

\* the if/elif chain of SimplifiedSupervisorNode.run
SimplifiedNextAgent(st) ==
    IF ~Has(st, "google_maps_results") THEN "google_maps"
    ELSE IF ~Has(st, "tavily_search_results") THEN "tavily_search"
    ELSE IF ~Has(st, "web_scraper_results") THEN "web_scraper"
    ELSE IF ~Has(st, "directory_results") THEN "directory"
    ELSE IF ~Has(st, "all_locations") THEN "aggregator"
    ELSE IF ~Has(st, "deduplicated_locations") THEN "deduplication"
    ELSE IF ~Has(st, "enriched_locations") THEN "enricher"
    ELSE IF ~Has(st, "export_files") THEN "exporter"
    ELSE IF ~Has(st, "summary") THEN "summary"
    ELSE "end"

SimplifiedSupervisorNode_run(st) == Put(st, "next_agent", SimplifiedNextAgent(st))

(***************************************************************************)
(* The legacy workflow: src/api/workflows/master_discovery_workflow.py.    *)
(***************************************************************************)
EnhancedGoogleMapsAgentNode_run(st, kind, locs) ==
    SourceStageRun(st, "google_maps_results", kind, locs,
        <<CountMessage("Google Maps found", Len(locs))>>, <<>>, <<>>)

TavilySearchAgentNode_run(st, kind, locs) ==
    SourceStageRun(st, "tavily_search_results", kind, locs,
        <<CountMessage("Tavily found", Len(locs))>>, <<>>, <<>>)

ImprovedWebScraperAgentNode_run(st, kind, locs) ==
    SourceStageRun(st, "web_scraper_results", kind, locs,
        <<CountMessage("Web scraper found", Len(locs))>>,
        <<TextMessage("Web scraper skipped - no valid URL provided")>>,
        <<"Web scraper error">>)

\* the mock list locations of SECFilingAgentNode.run
SECMockLocations(company_name) ==
    <<Location(str_Delaware, company_name \o str_Subsidiary, <<>>, "sec_filing")>>

SECFilingAgentNode_run(st) ==
    IF Has(st, "sec_filing_results") THEN st
    ELSE LET locations == SECMockLocations(st.company_name)
         IN  [Put(st, "sec_filing_results", locations) EXCEPT
                 !.messages = Append(@,
                     CountMessage("SEC filings found subsidiaries", Len(locations)))]

\* the list of sources of the legacy AggregatorNode.run
LegacyAggregatorSources ==
    <<"google_maps_results", "tavily_search_results", "web_scraper_results",
      "sec_filing_results">>

LegacyAggregatorNode_run(st) ==
    IF Has(st, "all_locations") THEN st
    ELSE LET all_locations == Collect(st, LegacyAggregatorSources, 1)
         IN  [Put(st, "all_locations", all_locations) EXCEPT
                 !.messages = Append(@,
                     CountMessage("Aggregated total locations", Len(all_locations)))]

DeduplicationNode_run(st) ==
    IF Has(st, "deduplicated_locations") THEN st
    ELSE LET unique == LegacyDeduplicate(GetList(st, "all_locations"))
         IN  [Put(st, "deduplicated_locations", unique) EXCEPT
                 !.messages = Append(@,
                     CountMessage("Deduplicated to unique locations", Len(unique)))]

\* enriched_loc of the legacy LocationEnrichmentNode.run: every candidate of
\* the model has the key name, so loc.get('name', default) is loc.name
LegacyEnrichedLoc(loc) == Location(loc.city, loc.name, loc.address, loc.source)

LegacyLocationEnrichmentNode_run(st) ==
    IF Has(st, "enriched_locations") THEN st
    ELSE LET locations == GetList(st, "deduplicated_locations")
             enriched  == [i \in 1..Len(locations) |-> LegacyEnrichedLoc(locations[i])]
         IN  [Put(Put(st, "enriched_locations", enriched),
                  "final_locations", enriched) EXCEPT
                 !.messages = Append(@,
                     CountMessage("Enriched locations", Len(enriched)))]

LegacyExportNode_run(st) ==
    IF Truthy(st, "export_files") THEN st
    ELSE LET export_files == <<"excel", "csv", "json", "summary_report">>
         IN  [Put(st, "export_files", export_files) EXCEPT
                 !.messages = Append(@,
                     CountMessage("Enhanced export completed", Len(export_files)))]

\* the dict summary of the legacy SummaryNode.run
LegacySummary(st) ==
    [company |-> st.company_name, url |-> st.company_url,
     total_locations |-> Len(GetList(st, "final_locations")),
     sources_used |->
        [google_maps |-> Len(GetList(st, "google_maps_results")),
         tavily |-> Len(GetList(st, "tavily_search_results")),
         website |-> Len(GetList(st, "web_scraper_results")),
         sec |-> Len(GetList(st, "sec_filing_results"))],
     url_processed |-> clean_and_validate_url(st.company_url) # <<>>]

\* the legacy SummaryNode.run; llm is "ok" or "raised"
LegacySummaryNode_run(st, llm) ==
    IF Truthy(st, "summary") THEN st
    ELSE LET done == Put(Put(st, "summary", LegacySummary(st)),
                         "status", "completed")
         IN  IF llm = "ok"
             THEN AppendTo(done, "messages", TextMessage("summary"))
             ELSE AppendTo(done, "messages", TextMessage("Discovery completed"))

\* the if/elif chain of the legacy EnhancedSupervisorNode.run
LegacyNextAgent(st) ==
    IF ~Has(st, "google_maps_results") THEN "google_maps"
    ELSE IF ~Has(st, "tavily_search_results") THEN "tavily_search"
    ELSE IF ~Has(st, "web_scraper_results") THEN "web_scraper"
    ELSE IF ~Has(st, "sec_filing_results") THEN "sec_filing"
    ELSE IF ~Has(st, "all_locations") THEN "aggregator"
    ELSE IF ~Has(st, "deduplicated_locations") THEN "deduplication"
    ELSE IF ~Has(st, "enriched_locations") THEN "enricher"
    ELSE IF ~Has(st, "export_files") THEN "exporter"
    ELSE IF ~Has(st, "summary") THEN "summary"
    ELSE "end"

LegacySupervisorNode_run(st) == Put(st, "next_agent", LegacyNextAgent(st))

(***************************************************************************)
(* The run of discover(): the compiled graph alternates the supervisor and *)
(* the node it routes to.                                                  *)
(***************************************************************************)
VARIABLES
    wf,       \* the workflow class discover() belongs to
    state,    \* the DiscoveryState dict threaded through the nodes
    pc,       \* the node the graph runs next, "END", "returned", or "reported"
    steps,    \* the supersteps the graph has executed
    result,   \* the dict discover() returns, <<>> until it returns
    last,     \* history: the node that ran last and its collaborator's kind
    raised,   \* history: how many source collaborators raised an exception
    job,      \* jobs_storage[job_id] of the request that started the run
    environ,  \* os.environ of the server process: the API keys stored in it
    workflow, \* the workflow object: the api_keys it was built with and the
              \* api_key of its Google Maps and Tavily nodes
    cleanings \* history: the calls of clean_and_validate_url made for the session

vars == <<wf, state, pc, steps, result, last, raised, job, environ, workflow,
          cleanings>>

\* a workflow built with both keys supplied, and os.environ after it was built
KeyedWorkflow ==
    [api_keys |-> [google_maps_api_key |-> "own", tavily_api_key |-> "own"],
     google_maps_api_key |-> "own", tavily_api_key |-> "own"]

KeyedEnviron == [GOOGLE_MAPS_API_KEY |-> "own", TAVILY_API_KEY |-> "own"]

Workflows == {"enhanced", "simplified", "legacy"}

\* config={"recursion_limit": ...} of discover()
recursion_limit(w) == IF w = "enhanced" THEN 100 ELSE 50

\* the requests discover() is called with: company_name and the raw company_url
\* (<<>> stands for None)
Requests ==
    { [company_name |-> str_Acme, company_url |-> str_acme_com],
      [company_name |-> str_Apple_Inc, company_url |-> <<>>] }

\* the candidates (city, name, address) the collaborators of a run find
SourcePool == { Location(str_Austin, str_HQ, <<>>, "pool") }

\* the candidates of the pool as the stage with source tag source emits them
Tagged(pool, source) ==
    {Location(c.city, c.name, c.address, source) : c \in pool}

\* the lists of at most n candidates of a set
ListsUpTo(S, n) == UNION {[1..k -> S] : k \in 0..n}

SourceKeys ==
    {"google_maps_results", "tavily_search_results", "web_scraper_results",
     "directory_results", "sec_filing_results", "multi_search_results",
     "industry_specific_results"}

RECURSIVE SumLen(_, _)
SumLen(st, keys) ==
    IF keys = {} THEN 0
    ELSE LET k == CHOOSE x \in keys : TRUE
         IN  Len(GetList(st, k)) + SumLen(st, keys \ {k})

\* the lists a collaborator may return: the run stays within MaxCandidates
SourceLists(source) ==
    ListsUpTo(Tagged(SourcePool, source), MaxCandidates - SumLen(state, SourceKeys))

\* the first message of initial_state
FirstMessage(w) ==
    IF w = "enhanced" THEN TextMessage("Enhanced discovery for")
    ELSE IF w = "simplified" THEN TextMessage("Simplified discovery for")
    ELSE TextMessage("Discover locations for")

\* initial_state of discover(company_name, company_url)
initial_state(w, company_name, company_url) ==
    [company_name |-> company_name,
     company_url  |-> IF company_url # <<>> THEN clean_and_validate_url(company_url)
                                            ELSE <<>>,
     messages     |-> <<FirstMessage(w)>>,
     errors       |-> <<>>]

\* the calls of clean_and_validate_url in discover(): cleaned_url =
\* clean_and_validate_url(company_url) if company_url else ""
discover_cleanings(company_url) == IF company_url # <<>> THEN 1 ELSE 0

\* the calls made for a session the aggregator has returned, its cleaned url
\* being company_url: the web scrapers of the enhanced and the simplified
\* workflow had no client and returned before reading the url, the legacy one
\* cleans the url first
aggregated_cleanings(w, company_url) ==
    discover_cleanings(company_url) + (IF w = "legacy" THEN 1 ELSE 0)

\* the calls a web scraper node may make: none when the slot is present; the
\* legacy node cleans the stored url before anything else; the enhanced and
\* the simplified node return before the call when they have no client, and
\* after it when the cleaned url is empty and no website is found (both are
\* kind "disabled")
web_scraper_cleanings(node, key, kind) ==
    IF node # "web_scraper" \/ Has(state, key) THEN {0}
    ELSE IF wf = "legacy" \/ kind # "disabled" THEN {1}
    ELSE IF clean_and_validate_url(state.company_url) = <<>> THEN {0, 1}
    ELSE {0}

\* the calls a processing node makes: the summary nodes of the enhanced and
\* the legacy workflow compute url_processed from the stored url
summary_cleanings(node) ==
    IF /\ node \in {"summary_generator", "summary"}
       /\ wf \in {"enhanced", "legacy"}
       /\ ~Truthy(state, "summary")
    THEN 1 ELSE 0

Init ==
    /\ wf \in Workflows
    /\ \E req \in Requests :
           state = initial_state(wf, req.company_name, req.company_url)
    /\ pc = "supervisor"
    /\ steps = 0
    /\ result = <<>>
    /\ last = [node |-> "none", kind |-> "none"]
    /\ raised = 0
    /\ job = [status |-> "running"]
    /\ environ = KeyedEnviron
    /\ workflow = KeyedWorkflow
    /\ cleanings = discover_cleanings(state.company_url)

\* the graph is about to run node in workflow w
AtNode(w, node) == wf = w /\ pc = node /\ steps < recursion_limit(w)

\* workflow.add_edge(node, "supervisor")
BackToSupervisor ==
    /\ pc' = "supervisor"
    /\ steps' = steps + 1
    /\ UNCHANGED <<wf, result, job, environ, workflow>>

\* a source node runs with the collaborator's outcome kind and list locs,
\* chosen by the node's action, and returns next_state
SourceNode(node, key, kind, locs, next_state) ==
    /\ kind = "ok" \/ locs = <<>>
    /\ state' = next_state
    /\ last' = [node |-> node, kind |-> IF Has(state, key) THEN "noop" ELSE kind]
    /\ raised' = IF kind = "raised" /\ ~Has(state, key) THEN raised + 1
                                                       ELSE raised
    /\ \E calls \in web_scraper_cleanings(node, key, kind) :
           cleanings' = cleanings + calls
    /\ BackToSupervisor

\* a processing node runs
ProcessingNode(node, next_state) ==
    /\ state' = next_state
    /\ last' = [node |-> node, kind |-> IF next_state = state THEN "noop" ELSE "ok"]
    /\ cleanings' = cleanings + summary_cleanings(node)
    /\ UNCHANGED raised
    /\ BackToSupervisor

\* the supervisor runs and route_next picks the edge: routes maps next_agent
\* to the node of the conditional edge
SupervisorNode(next_state, summary_node) ==
    /\ state' = next_state
    /\ pc' = IF next_state.next_agent = "end" THEN "END"
             ELSE IF next_state.next_agent = "summary" THEN summary_node
             ELSE next_state.next_agent
    /\ steps' = steps + 1
    /\ UNCHANGED <<wf, result, last, raised, job, environ, workflow, cleanings>>

(***************************************************************************)
(* Nodes of the enhanced graph (_build_enhanced_graph).                    *)
(***************************************************************************)
Enhanced_supervisor ==
    /\ AtNode("enhanced", "supervisor")
    /\ SupervisorNode(EnhancedSupervisorNode_run(state), "summary_generator")

Enhanced_google_maps ==
    /\ AtNode("enhanced", "google_maps")
    /\ \E kind \in Kinds, locs \in SourceLists("google_maps") :
           /\ workflow.google_maps_api_key = "none" => kind = "disabled"
           /\ SourceNode("google_maps", "google_maps_results", kind, locs,
                  SuperEnhancedGoogleMapsAgentNode_run(state, kind, locs))

Enhanced_tavily_search ==
    /\ AtNode("enhanced", "tavily_search")
    /\ \E kind \in Kinds, locs \in SourceLists("tavily") :
           /\ workflow.tavily_api_key = "none" => kind = "disabled"
           /\ SourceNode("tavily_search", "tavily_search_results", kind, locs,
                  SuperEnhancedTavilySearchAgentNode_run(state, kind, locs))

Enhanced_web_scraper ==
    /\ AtNode("enhanced", "web_scraper")
    /\ \E kind \in Kinds, locs \in SourceLists("company_website") :
           SourceNode("web_scraper", "web_scraper_results", kind, locs,
               SuperEnhancedWebScraperAgentNode_run(state, kind, locs))

\* _extract_locations_from_filing returns [] in every case
Enhanced_sec_filing ==
    /\ AtNode("enhanced", "sec_filing")
    /\ \E kind \in Kinds, locs \in {<<>>} :
           SourceNode("sec_filing", "sec_filing_results", kind, locs,
               SECFilingsAgentNode_run(state, kind, locs))

Enhanced_multi_search ==
    /\ AtNode("enhanced", "multi_search")
    /\ \E kind \in Kinds, locs \in SourceLists("multi_search") :
           SourceNode("multi_search", "multi_search_results", kind, locs,
               MultiSearchEngineAgentNode_run(state, kind, locs))

\* _search_for_term returns [] in every case
Enhanced_industry_specific ==
    /\ AtNode("enhanced", "industry_specific")
    /\ \E kind \in Kinds, locs \in {<<>>} :
           SourceNode("industry_specific", "industry_specific_results", kind, locs,
               IndustrySpecificAgentNode_run(state, kind, locs))

Enhanced_directory ==
    /\ AtNode("enhanced", "directory")
    /\ \E kind \in Kinds, locs \in SourceLists("business_directory") :
           SourceNode("directory", "directory_results", kind, locs,
               EnhancedBusinessDirectoryAgentNode_run(state, kind, locs))

Enhanced_aggregator ==
    /\ AtNode("enhanced", "aggregator")
    /\ ProcessingNode("aggregator", AggregatorNode_run(state))

Enhanced_deduplication ==
    /\ AtNode("enhanced", "deduplication")
    /\ ProcessingNode("deduplication", EnhancedDeduplicationNode_run(state))

Enhanced_enricher ==
    /\ AtNode("enhanced", "enricher")
    /\ ProcessingNode("enricher", LocationEnrichmentNode_run(state))

Enhanced_exporter ==
    /\ AtNode("enhanced", "exporter")
    /\ \E excel \in BOOLEAN :
           ProcessingNode("exporter", EnhancedExportNode_run(state, excel))

Enhanced_summary_generator ==
    /\ AtNode("enhanced", "summary_generator")
    /\ \E llm \in {"none", "ok", "raised"} :
           ProcessingNode("summary_generator", SummaryNode_run(state, llm))

\* graph.invoke returns and discover() builds its result
Enhanced_discover_return ==
    /\ wf = "enhanced" /\ pc = "END"
    /\ result' = [company |-> state.company_name, url |-> state.company_url,
                  locations |-> GetList(state, "final_locations"),
                  summary |-> GetList(state, "summary"),
                  export_files |-> GetList(state, "export_files"),
                  messages |-> GetList(state, "messages"),
                  errors |-> GetList(state, "errors")]
    /\ pc' = "returned"
    /\ UNCHANGED <<wf, state, steps, last, raised, job, environ, workflow, cleanings>>

(***************************************************************************)
(* Nodes of the simplified graph (_build_graph).                           *)
(***************************************************************************)
Simplified_supervisor ==
    /\ AtNode("simplified", "supervisor")
    /\ SupervisorNode(SimplifiedSupervisorNode_run(state), "summary_generator")

Simplified_google_maps ==
    /\ AtNode("simplified", "google_maps")
    /\ \E kind \in Kinds, locs \in SourceLists("google_maps") :
           SourceNode("google_maps", "google_maps_results", kind, locs,
               SimplifiedGoogleMapsAgentNode_run(state, kind, locs))

Simplified_tavily_search ==
    /\ AtNode("simplified", "tavily_search")
    /\ \E kind \in Kinds, locs \in SourceLists("tavily") :
           SourceNode("tavily_search", "tavily_search_results", kind, locs,
               SimplifiedTavilySearchAgentNode_run(state, kind, locs))

\* without a valid company_url the stage returns before its try block
Simplified_web_scraper ==
    /\ AtNode("simplified", "web_scraper")
    /\ \E kind \in IF clean_and_validate_url(state.company_url) = <<>>
                   THEN {"disabled"} ELSE Kinds,
          locs \in SourceLists("company_website") :
           SourceNode("web_scraper", "web_scraper_results", kind, locs,
               SimplifiedWebScraperAgentNode_run(state, kind, locs))

\* the try block of the directory stage only assigns []
Simplified_directory ==
    /\ AtNode("simplified", "directory")
    /\ \E kind \in {"ok", "disabled"}, locs \in {<<>>} :
           SourceNode("directory", "directory_results", kind, locs,
               SimplifiedBusinessDirectoryAgentNode_run(state, kind, locs))

Simplified_aggregator ==
    /\ AtNode("simplified", "aggregator")
    /\ ProcessingNode("aggregator", SimplifiedAggregatorNode_run(state))

Simplified_deduplication ==
    /\ AtNode("simplified", "deduplication")
    /\ ProcessingNode("deduplication", SimplifiedDeduplicationNode_run(state))

Simplified_enricher ==
    /\ AtNode("simplified", "enricher")
    /\ ProcessingNode("enricher", SimplifiedEnrichmentNode_run(state))

Simplified_exporter ==
    /\ AtNode("simplified", "exporter")
    /\ ProcessingNode("exporter", SimplifiedExportNode_run(state))

Simplified_summary_generator ==
    /\ AtNode("simplified", "summary_generator")
    /\ ProcessingNode("summary_generator", SimplifiedSummaryNode_run(state))

Simplified_discover_return ==
    /\ wf = "simplified" /\ pc = "END"
    /\ result' = [company |-> state.company_name, url |-> state.company_url,
                  locations |-> GetList(state, "final_locations"),
                  summary |-> GetList(state, "summary"),
                  export_files |-> GetList(state, "export_files"),
                  messages |-> GetList(state, "messages"),
                  errors |-> GetList(state, "errors")]
    /\ pc' = "returned"
    /\ UNCHANGED <<wf, state, steps, last, raised, job, environ, workflow, cleanings>>

(***************************************************************************)
(* Nodes of the legacy graph (_build_graph).                               *)
(***************************************************************************)
Legacy_supervisor ==
    /\ AtNode("legacy", "supervisor")
    /\ SupervisorNode(LegacySupervisorNode_run(state), "summary")

Legacy_google_maps ==
    /\ AtNode("legacy", "google_maps")
    /\ \E kind \in Kinds, locs \in SourceLists("google_maps") :
           SourceNode("google_maps", "google_maps_results", kind, locs,
               EnhancedGoogleMapsAgentNode_run(state, kind, locs))

Legacy_tavily_search ==
    /\ AtNode("legacy", "tavily_search")
    /\ \E kind \in Kinds, locs \in SourceLists("tavily") :
           SourceNode("tavily_search", "tavily_search_results", kind, locs,
               TavilySearchAgentNode_run(state, kind, locs))

\* without a valid company_url the stage is skipped; with one it has no
\* disabled path
Legacy_web_scraper ==
    /\ AtNode("legacy", "web_scraper")
    /\ \E kind \in IF clean_and_validate_url(state.company_url) = <<>>
                   THEN {"disabled"} ELSE {"ok", "raised"},
          locs \in SourceLists("website") :
           SourceNode("web_scraper", "web_scraper_results", kind, locs,
               ImprovedWebScraperAgentNode_run(state, kind, locs))

Legacy_sec_filing ==
    /\ AtNode("legacy", "sec_filing")
    /\ ProcessingNode("sec_filing", SECFilingAgentNode_run(state))

Legacy_aggregator ==
    /\ AtNode("legacy", "aggregator")
    /\ ProcessingNode("aggregator", LegacyAggregatorNode_run(state))

Legacy_deduplication ==
    /\ AtNode("legacy", "deduplication")
    /\ ProcessingNode("deduplication", DeduplicationNode_run(state))

Legacy_enricher ==
    /\ AtNode("legacy", "enricher")
    /\ ProcessingNode("enricher", LegacyLocationEnrichmentNode_run(state))

Legacy_exporter ==
    /\ AtNode("legacy", "exporter")
    /\ ProcessingNode("exporter", LegacyExportNode_run(state))

Legacy_summary ==
    /\ AtNode("legacy", "summary")
    /\ \E llm \in {"ok", "raised"} :
           ProcessingNode("summary", LegacySummaryNode_run(state, llm))

Legacy_discover_return ==
    /\ wf = "legacy" /\ pc = "END"
    /\ result' = [company |-> state.company_name, url |-> state.company_url,
                  locations |-> GetList(state, "final_locations"),
                  summary |-> GetList(state, "summary"),
                  messages |-> GetList(state, "messages"),
                  errors |-> GetList(state, "errors")]
    /\ pc' = "returned"
    /\ UNCHANGED <<wf, state, steps, last, raised, job, environ, workflow, cleanings>>

Next ==
    \/ Enhanced_supervisor
    \/ Enhanced_google_maps
    \/ Enhanced_tavily_search
    \/ Enhanced_web_scraper
    \/ Enhanced_sec_filing
    \/ Enhanced_multi_search
    \/ Enhanced_industry_specific
    \/ Enhanced_directory
    \/ Enhanced_aggregator
    \/ Enhanced_deduplication
    \/ Enhanced_enricher
    \/ Enhanced_exporter
    \/ Enhanced_summary_generator
    \/ Enhanced_discover_return
    \/ Simplified_supervisor
    \/ Simplified_google_maps
    \/ Simplified_tavily_search
    \/ Simplified_web_scraper
    \/ Simplified_directory
    \/ Simplified_aggregator
    \/ Simplified_deduplication
    \/ Simplified_enricher
    \/ Simplified_exporter
    \/ Simplified_summary_generator
    \/ Simplified_discover_return
    \/ Legacy_supervisor
    \/ Legacy_google_maps
    \/ Legacy_tavily_search
    \/ Legacy_web_scraper
    \/ Legacy_sec_filing
    \/ Legacy_aggregator
    \/ Legacy_deduplication
    \/ Legacy_enricher
    \/ Legacy_exporter
    \/ Legacy_summary
    \/ Legacy_discover_return

Spec == Init /\ [][Next]_vars

(***************************************************************************)
(* The validator on bounded inputs: the run starts in the state a session  *)
(* has when its aggregator has just run, for every aggregated list of at   *)
(* most MaxAggregated candidates of ValidatorPool.  The first candidate    *)
(* was returned by the Google Maps stage and the others by the Tavily      *)
(* stage; the other collaborators found nothing.                           *)
(***************************************************************************)
ValidatorPool ==
    { Location(str_Austin, str_HQ, <<>>, "pool"),
      Location(str_Austin, str_Headquarters_Office, <<>>, "pool"),
      Location(str_austin_trailing, str_Headquarters, <<>>, "pool"),
      Location(str_Austin, str_HQ_Office, <<>>, "pool"),
      Location(str_Austin, str_Headquarters_Office_Building, <<>>, "pool"),
      Location(str_Austin, str_Building, <<>>, "pool"),
      Location(str_unknown_location, <<>>, <<>>, "pool"),
      Location(str_blank, str_Office, <<>>, "pool"),
      Location(str_Dallas, str_Test_Location, str_Main_St, "pool") }

\* the kind of a web scraper run that finds nothing
QuietWebKind(w, st) ==
    IF w = "legacy" /\ clean_and_validate_url(st.company_url) # <<>> THEN "ok"
    ELSE "disabled"

\* the session after the source stages and the aggregator of workflow w ran,
\* Google Maps having returned first and Tavily rest
AggregatedSession(w, req, first, rest) ==
    LET s0 == initial_state(w, req.company_name, req.company_url)
    IN  IF w = "enhanced"
        THEN LET s1 == SuperEnhancedGoogleMapsAgentNode_run(s0, "ok", first)
                 s2 == SuperEnhancedTavilySearchAgentNode_run(s1, "ok", rest)
                 s3 == SuperEnhancedWebScraperAgentNode_run(s2, QuietWebKind(w, s2), <<>>)
                 s4 == SECFilingsAgentNode_run(s3, "ok", <<>>)
                 s5 == MultiSearchEngineAgentNode_run(s4, "ok", <<>>)
                 s6 == IndustrySpecificAgentNode_run(s5, "ok", <<>>)
                 s7 == EnhancedBusinessDirectoryAgentNode_run(s6, "ok", <<>>)
             IN  AggregatorNode_run(Put(s7, "next_agent", "aggregator"))
        ELSE IF w = "simplified"
        THEN LET s1 == SimplifiedGoogleMapsAgentNode_run(s0, "ok", first)
                 s2 == SimplifiedTavilySearchAgentNode_run(s1, "ok", rest)
                 s3 == SimplifiedWebScraperAgentNode_run(s2, QuietWebKind(w, s2), <<>>)
                 s4 == SimplifiedBusinessDirectoryAgentNode_run(s3, "ok", <<>>)
             IN  SimplifiedAggregatorNode_run(Put(s4, "next_agent", "aggregator"))
        ELSE LET s1 == EnhancedGoogleMapsAgentNode_run(s0, "ok", first)
                 s2 == TavilySearchAgentNode_run(s1, "ok", rest)
                 s3 == ImprovedWebScraperAgentNode_run(s2, QuietWebKind(w, s2), <<>>)
                 s4 == SECFilingAgentNode_run(s3)
             IN  LegacyAggregatorNode_run(Put(s4, "next_agent", "aggregator"))

\* the supersteps a run has executed when its aggregator returns
StepsToAggregated(w) == IF w = "enhanced" THEN 16 ELSE 10

\* the candidates of list as the stage with tag source emits them
TaggedList(list, source) ==
    [i \in 1..Len(list) |->
        Location(list[i].city, list[i].name, list[i].address, source)]

InitValidator ==
    /\ wf \in Workflows
    /\ \E req \in Requests, list \in ListsUpTo(ValidatorPool, MaxAggregated) :
           state = AggregatedSession(wf, req,
                       TaggedList(IF list = <<>> THEN <<>> ELSE <<Head(list)>>,
                                  "google_maps"),
                       TaggedList(IF list = <<>> THEN <<>> ELSE Tail(list),
                                  "tavily"))
    /\ pc = "supervisor"
    /\ steps = StepsToAggregated(wf)
    /\ result = <<>>
    /\ last = [node |-> "aggregator", kind |-> "ok"]
    /\ raised = 0
    /\ job = [status |-> "running"]
    /\ environ = KeyedEnviron
    /\ workflow = KeyedWorkflow
    /\ cleanings = aggregated_cleanings(wf, state.company_url)

NextValidator ==
    \/ Enhanced_supervisor
    \/ Enhanced_deduplication
    \/ Enhanced_enricher
    \/ Enhanced_exporter
    \/ Enhanced_summary_generator
    \/ Enhanced_discover_return
    \/ Simplified_supervisor
    \/ Simplified_deduplication
    \/ Simplified_enricher
    \/ Simplified_exporter
    \/ Simplified_summary_generator
    \/ Simplified_discover_return
    \/ Legacy_supervisor
    \/ Legacy_deduplication
    \/ Legacy_enricher
    \/ Legacy_exporter
    \/ Legacy_summary
    \/ Legacy_discover_return

SpecValidator == InitValidator /\ [][NextValidator]_vars

\* the nodes added to the graph (workflow.add_node)
GraphNodes(w) ==
    IF w = "enhanced"
    THEN {"supervisor", "google_maps", "tavily_search", "web_scraper",
          "sec_filing", "multi_search", "industry_specific", "directory",
          "aggregator", "deduplication", "enricher", "exporter",
          "summary_generator"}
    ELSE IF w = "simplified"
    THEN {"supervisor", "google_maps", "tavily_search", "web_scraper",
          "directory", "aggregator", "deduplication", "enricher", "exporter",
          "summary_generator"}
    ELSE {"supervisor", "google_maps", "tavily_search", "web_scraper",
          "sec_filing", "aggregator", "deduplication", "enricher", "exporter",
          "summary"}

\* a step is pending: control is at a node of the graph below the recursion
\* limit, or the graph has ended and discover() has yet to return
Scheduled ==
    \/ pc = "END"
    \/ pc \in GraphNodes(wf) /\ steps < recursion_limit(wf)

\* the pending step is taken: control leaves the node.  Every step of Next
\* moves pc, and Next is enabled exactly where Scheduled holds, so that weak
\* fairness of NodeRuns is weak fairness of Next.
NodeRuns ==
    /\ Scheduled
    /\ \E node \in (GraphNodes(wf) \cup {"END", "returned"}) \ {pc} : pc' = node

\* the scheduling of graph.invoke: a compiled graph runs the node control is
\* at until it reaches END, and discover() then returns
FairSpec == Init /\ [][Next]_vars /\ WF_pc(NodeRuns)

(***************************************************************************)
(* The order in which the graphs declare their nodes (agent_nodes of       *)
(* _build_enhanced_graph and _build_graph), each node with the slot it     *)
(* owns and the name the supervisor routes to it by.                       *)
(***************************************************************************)
Stage(agent, key) == [agent |-> agent, key |-> key]

SourceStages(w) ==
    IF w = "enhanced"
    THEN << Stage("google_maps", "google_maps_results"),
            Stage("tavily_search", "tavily_search_results"),
            Stage("web_scraper", "web_scraper_results"),
            Stage("sec_filing", "sec_filing_results"),
            Stage("multi_search", "multi_search_results"),
            Stage("industry_specific", "industry_specific_results"),
            Stage("directory", "directory_results") >>
    ELSE IF w = "simplified"
    THEN << Stage("google_maps", "google_maps_results"),
            Stage("tavily_search", "tavily_search_results"),
            Stage("web_scraper", "web_scraper_results"),
            Stage("directory", "directory_results") >>
    ELSE << Stage("google_maps", "google_maps_results"),
            Stage("tavily_search", "tavily_search_results"),
            Stage("web_scraper", "web_scraper_results"),
            Stage("sec_filing", "sec_filing_results") >>

\* the stages of the claimed routing order: the source stages, then
\* aggregated, deduplicated and final
PipelineStages(w) ==
    SourceStages(w) \o << Stage("aggregator", "all_locations"),
                          Stage("deduplication", "deduplicated_locations"),
                          Stage("enricher", "final_locations") >>

\* the stages of the graph: the pipeline, then the exporter and the summary
GraphStages(w) ==
    PipelineStages(w) \o << Stage("exporter", "export_files"),
                            Stage("summary", "summary") >>

\* the agent owning the first absent slot of stages, "end" when none is absent
FirstAbsent(stages, st) ==
    LET absent == {i \in 1..Len(stages) : ~Has(st, stages[i].key)}
    IN  IF absent = {} THEN "end"
        ELSE stages[CHOOSE i \in absent : \A j \in absent : i <= j].agent

\* the supervisor has run and no node has run since
Routed == Has(state, "next_agent") /\ pc # "supervisor"

(***************************************************************************)
(* Claims.                                                                 *)
(***************************************************************************)

\* C1, as stated: when the supervisor has run, next_agent is the stage owning
\* the first absent slot in the order source stages, aggregated, deduplicated,
\* final, and it is "end" exactly when all of these slots are present.
C1_RoutingOverPipelineSlots ==
    Routed => state.next_agent = FirstAbsent(PipelineStages(wf), state)

\* C1, amended: when the supervisor has run, next_agent is the stage owning
\* the first absent slot in the order source stages, aggregated, deduplicated,
\* final, export_files, summary, and it is "end" exactly when all of these
\* slots are present; next_agent is a function of the presence pattern alone.
C1_RoutingOverGraphSlots ==
    Routed => state.next_agent = FirstAbsent(GraphStages(wf), state)

\* the supervisor has routed to "end" with every slot present
C1_Witness ==
    /\ pc = "END"
    /\ state.next_agent = "end"
    /\ \A i \in 1..Len(GraphStages(wf)) : Has(state, GraphStages(wf)[i].key)

\* C2: after a source stage's run has returned, the slot of the stage is
\* present, and it is the empty list when the collaborator failed (raised an
\* exception, or was disabled for want of credentials or configuration).
C2_SlotPresentAfterRun ==
    \A i \in 1..Len(SourceStages(wf)) :
        LET stage == SourceStages(wf)[i]
        IN  last.node = stage.agent =>
                /\ Has(state, stage.key)
                /\ last.kind \in {"raised", "disabled"} => state[stage.key] = <<>>

\* a source stage whose collaborator raised has returned to the supervisor
C2_Witness ==
    /\ last = [node |-> "tavily_search", kind |-> "raised"]
    /\ pc = "supervisor"
    /\ state.tavily_search_results = <<>>

C4_ErrorsCountRaised ==
    pc = "returned" =>
        /\ raised = 1 => Len(state.errors) = 1
        /\ raised = 0 => Len(state.errors) = 0

\* the occurrences of x in the list seq
Count(seq, x) == Cardinality({i \in 1..Len(seq) : seq[i] = x})

\* the candidates of the source slots
SourceCandidates(st) ==
    UNION {{GetList(st, k)[i] : i \in 1..Len(GetList(st, k))} : k \in SourceKeys}

RECURSIVE SumCount(_, _, _)
SumCount(st, keys, x) ==
    IF keys = {} THEN 0
    ELSE LET k == CHOOSE y \in keys : TRUE
         IN  Count(GetList(st, k), x) + SumCount(st, keys \ {k}, x)

\* C5: once the aggregator has run, aggregated is as long as the source slots
\* together, and every candidate occurs in it as often as in the source slots.
C5_AggregationLossless ==
    Has(state, "all_locations") =>
        /\ Len(state.all_locations) = SumLen(state, SourceKeys)
        /\ \A c \in SourceCandidates(state) :
               Count(state.all_locations, c) = SumCount(state, SourceKeys, c)

\* the aggregator has run on a session with two non-empty source slots
C5_Witness ==
    /\ Has(state, "all_locations")
    /\ Cardinality({k \in SourceKeys : GetList(state, k) # <<>>}) >= 2
    /\ Len(state.all_locations) >= 2

\* C6, as stated: at the end state, final is no longer than deduplicated and
\* deduplicated is no longer than aggregated.
C6_StagesNonExpansive ==
    pc = "END" =>
        /\ Len(state.final_locations) <= Len(state.deduplicated_locations)
        /\ Len(state.deduplicated_locations) <= Len(state.all_locations)

\* the company name holds one of the names of the known-headquarters table
InHeadquartersTable(company_name) ==
    \E known \in {str_microsoft, str_apple, str_google} :
        contains(lower(company_name), known)

\* C6, amended: at the end state, deduplicated is no longer than aggregated,
\* and final is as long as deduplicated, except that in the enhanced workflow
\* an empty deduplicated and a company name of the known-headquarters table
\* give a final of exactly one record.
C6_ValidatorNonExpansive ==
    pc = "END" =>
        /\ Len(state.deduplicated_locations) <= Len(state.all_locations)
        /\ Len(state.final_locations) =
               IF /\ wf = "enhanced"
                  /\ state.deduplicated_locations = <<>>
                  /\ InHeadquartersTable(state.company_name)
               THEN 1
               ELSE Len(state.deduplicated_locations)

\* the enhanced run of a known company ended with every aggregated candidate
\* dropped and the headquarters record as final
C6_Witness ==
    /\ pc = "END"
    /\ wf = "enhanced"
    /\ state.all_locations # <<>>
    /\ state.deduplicated_locations = <<>>
    /\ Len(state.final_locations) = 1
    /\ state.final_locations[1].source = "known_headquarters"

\* C7, as stated: every candidate of deduplicated, and of final, has a city
\* that is not empty once trimmed.
C7_CityNonEmpty ==
    /\ Has(state, "deduplicated_locations") =>
           \A i \in 1..Len(state.deduplicated_locations) :
               strip(state.deduplicated_locations[i].city) # <<>>
    /\ Has(state, "final_locations") =>
           \A i \in 1..Len(state.final_locations) :
               strip(state.final_locations[i].city) # <<>>

\* the case-folded city, name or address of loc holds a placeholder marker
HasMarker(loc) ==
    \E marker \in fake_indicators :
        \/ contains(lower(loc.city), marker)
        \/ contains(lower(loc.name), marker)
        \/ contains(lower(loc.address), marker)

\* C8, as stated: no record of deduplicated comes from an aggregated candidate
\* whose city, name or address holds a placeholder marker.
C8_PlaceholdersDropped ==
    Has(state, "deduplicated_locations") =>
        \A i \in 1..Len(state.deduplicated_locations) :
            ~HasMarker(state.deduplicated_locations[i])

\* the aggregated candidates that pass the implausibility filter
Survivors == SelectSeq(state.all_locations, IsRealLocation)

\* the candidates x and y both have their record in deduplicated
BothKept(x, y) ==
    \E a, b \in 1..Len(state.deduplicated_locations) :
        /\ a # b
        /\ state.deduplicated_locations[a] = EnhancedLoc(x)
        /\ state.deduplicated_locations[b] = EnhancedLoc(y)

\* same case-folded city, and the case-folded name of one within the other
NameWithinName(x, y) ==
    /\ strip(lower(x.city)) = strip(lower(y.city))
    /\ \/ contains(strip(lower(x.name)), strip(lower(y.name)))
       \/ contains(strip(lower(y.name)), strip(lower(x.name)))

\* C9, as stated: of two survivors of the filter with the same case-folded
\* city and the case-folded name of one a substring of the other's,
\* deduplicated holds only one.
C9_SubstringNamesMerged ==
    (wf = "enhanced" /\ Has(state, "deduplicated_locations")) =>
        LET survivors == Survivors
        IN  \A i, j \in 1..Len(survivors) :
                (i < j /\ NameWithinName(survivors[i], survivors[j]))
                    => ~BothKept(survivors[i], survivors[j])

\* the first 20 characters of the case-folded, trimmed name
ShortName(loc) == prefix(strip(lower(loc.name)), 20)

\* same case-folded city and either the same short name or, with no "_" in
\* the city and the short names and both short names longer than 3
\* characters, the short name of one within the other's
KeysSimilar(x, y) ==
    LET city_x == strip(lower(x.city))
        name_x == ShortName(x)
        name_y == ShortName(y)
    IN  /\ city_x = strip(lower(y.city))
        /\ \/ name_x = name_y
           \/ /\ SepPositions(city_x, "_") = {}
              /\ SepPositions(name_x, "_") = {}
              /\ SepPositions(name_y, "_") = {}
              /\ Len(name_x) > 3 /\ Len(name_y) > 3
              /\ contains(name_x, name_y) \/ contains(name_y, name_x)

\* C9, amended: in the enhanced workflow, of two survivors of the filter with
\* the same case-folded city and either equal 20-character case-folded names
\* or, both longer than 3 characters and free of "_", the 20-character name of
\* one a substring of the other's, deduplicated holds only one.
C9_SimilarKeysMerged ==
    (wf = "enhanced" /\ Has(state, "deduplicated_locations")) =>
        LET survivors == Survivors
        IN  \A i, j \in 1..Len(survivors) :
                (i < j /\ KeysSimilar(survivors[i], survivors[j]))
                    => ~BothKept(survivors[i], survivors[j])

\* the validator merged two survivors whose names differ
C9_Witness ==
    /\ wf = "enhanced"
    /\ Has(state, "deduplicated_locations")
    /\ Len(Survivors) = 2
    /\ ShortName(Survivors[1]) # ShortName(Survivors[2])
    /\ KeysSimilar(Survivors[1], Survivors[2])
    /\ Len(state.deduplicated_locations) = 1

\* Scenario A: one source stage returned Austin/HQ, another
\* Austin/Headquarters Office, and the validator has run
ScenarioA ==
    /\ Has(state, "deduplicated_locations")
    /\ state.google_maps_results =
           <<Location(str_Austin, str_HQ, <<>>, "google_maps")>>
    /\ state.tavily_search_results =
           <<Location(str_Austin, str_Headquarters_Office, <<>>, "tavily")>>
    /\ Len(state.all_locations) =
           IF wf = "legacy" THEN 3 ELSE 2

\* the records of deduplicated with city Austin
AustinRecords ==
    {i \in 1..Len(state.deduplicated_locations) :
        state.deduplicated_locations[i].city = str_Austin}

\* C10, as stated: in Scenario A deduplicated holds exactly one Austin record.
C10_ScenarioAOneRecord == ScenarioA => Cardinality(AustinRecords) = 1

\* C10, amended: in Scenario A deduplicated holds both Austin records, "hq"
\* being no substring of "headquarters office".
C10_ScenarioABothRecords == ScenarioA => Cardinality(AustinRecords) = 2

\* the enhanced validator has run on Scenario A
C10_Witness ==
    /\ wf = "enhanced"
    /\ ScenarioA
    /\ Len(state.deduplicated_locations) = 2

\* every source slot is present and empty and the company name is not in the
\* known-headquarters table
ScenarioB ==
    /\ \A i \in 1..Len(SourceStages(wf)) :
           /\ Has(state, SourceStages(wf)[i].key)
           /\ state[SourceStages(wf)[i].key] = <<>>
    /\ ~InHeadquartersTable(state.company_name)

\* C11: Scenario B: a run whose source stages all returned [] for a company
\* without a known headquarters ends with final = [] and status "completed".
C11_ScenarioBCompleted ==
    (ScenarioB /\ pc = "END") =>
        /\ state.final_locations = <<>>
        /\ state.status = "completed"

\* an enhanced run of Scenario B has ended
C11_Witness ==
    /\ wf = "enhanced"
    /\ ScenarioB
    /\ pc = "END"
    /\ state.final_locations = <<>>
    /\ state.status = "completed"

(***************************************************************************)
(* The loops of _deduplicate_locations with the iteration over the set     *)
(* processed spelled out.  Python does not specify the order in which a    *)
(* set of strings is iterated (it follows the hash values of the run):     *)
(* order is any listing of the keys, and the inner loop visits the keys of *)
(* processed in the order of this listing.                                 *)
(***************************************************************************)
\* the listings without repetition of the set S
Listings(S) ==
    {f \in [1..Cardinality(S) -> S] :
        \A i, j \in 1..Cardinality(S) : i # j => f[i] # f[j]}

\* the inner loop without its break, each pass assigning is_duplicate
RECURSIVE is_duplicate_last_pass(_, _, _, _)
is_duplicate_last_pass(key, visited, j, found) ==
    IF j > Len(visited) THEN found
    ELSE is_duplicate_last_pass(key, visited, j + 1,
             _are_similar_locations(key, visited[j]))

\* the inner loop from the j-th visited key on: for existing_key in
\* processed, with is_duplicate = found so far
RECURSIVE is_duplicate(_, _, _, _)
is_duplicate(key, visited, j, found) ==
    IF j > Len(visited) THEN found
    ELSE IF _are_similar_locations(key, visited[j]) THEN TRUE
         ELSE is_duplicate(key, visited, j + 1, found)

RECURSIVE DeduplicateIterating(_, _, _, _, _)
DeduplicateIterating(locations, i, unique, processed, order) ==
    IF i > Len(locations) THEN unique
    ELSE LET loc == locations[i]
             key == LocationKey(loc)
             visited == SelectSeq(order, LAMBDA k : k \in processed)
         IN  IF is_duplicate(key, visited, 1, FALSE)
             THEN DeduplicateIterating(locations, i + 1, unique, processed, order)
             ELSE DeduplicateIterating(locations, i + 1, Append(unique, loc),
                                       processed \cup {key}, order)

\* the keys _deduplicate_locations builds for the aggregated list
FilteredKeys(all_locations) ==
    LET filtered == _filter_fake_locations(all_locations)
    IN  {LocationKey(filtered[i]) : i \in 1..Len(filtered)}

\* EnhancedDeduplicationNode.run with the set iterated in the given order
EnhancedDeduplicationNode_run_iterating(st, order) ==
    IF Has(st, "deduplicated_locations") THEN st
    ELSE LET filtered == _filter_fake_locations(GetList(st, "all_locations"))
             enhanced_locations ==
                 _enhance_location_data(
                     DeduplicateIterating(filtered, 1, <<>>, {}, order))
         IN  [Put(st, "deduplicated_locations", enhanced_locations) EXCEPT
                 !.messages = Append(@,
                     CountMessage("Deduplicated to unique locations",
                                  Len(enhanced_locations)))]

Enhanced_deduplication_iterating ==
    /\ AtNode("enhanced", "deduplication")
    /\ \E order \in Listings(FilteredKeys(GetList(state, "all_locations"))) :
           ProcessingNode("deduplication",
               EnhancedDeduplicationNode_run_iterating(state, order))

\* candidates of which one is similar to some but not all of the others
IteratedPool ==
    { Location(str_Austin, str_Headquarters, <<>>, "pool"),
      Location(str_Austin, str_Headquarters_Office, <<>>, "pool"),
      Location(str_Dallas, str_Office, <<>>, "pool"),
      Location(str_Austin, str_Building, <<>>, "pool") }

\* the enhanced session the supervisor has routed to the validator, the
\* Google Maps stage having returned the aggregated list
InitIterating ==
    /\ wf = "enhanced"
    /\ \E req \in Requests, list \in ListsUpTo(IteratedPool, MaxIterated) :
           state = EnhancedSupervisorNode_run(
                       AggregatedSession(wf, req, TaggedList(list, "google_maps"),
                                         <<>>))
    /\ pc = "deduplication"
    /\ steps = StepsToAggregated(wf) + 1
    /\ result = <<>>
    /\ last = [node |-> "aggregator", kind |-> "ok"]
    /\ raised = 0
    /\ job = [status |-> "running"]
    /\ environ = KeyedEnviron
    /\ workflow = KeyedWorkflow
    /\ cleanings = aggregated_cleanings(wf, state.company_url)

NextIterating ==
    \/ Enhanced_deduplication_iterating
    \/ Enhanced_supervisor

SpecIterating == InitIterating /\ [][NextIterating]_vars

\* C12: for one aggregated list the validator yields one deduplicated list,
\* the function EnhancedDeduplicate of the aggregated list, in whatever order
\* the set of processed keys is iterated.
C12_DedupDeterministic ==
    Has(state, "deduplicated_locations") =>
        state.deduplicated_locations = EnhancedDeduplicate(state.all_locations)

\* the validator has run on three candidates of which the last is similar to
\* one of the two processed keys only
C12_Witness ==
    /\ Has(state, "deduplicated_locations")
    /\ Len(state.all_locations) = 3
    /\ Len(state.deduplicated_locations) = 2
    /\ LET a == state.all_locations
       IN  /\ ~_are_similar_locations(LocationKey(a[1]), LocationKey(a[2]))
           /\ _are_similar_locations(LocationKey(a[3]), LocationKey(a[1]))
              # _are_similar_locations(LocationKey(a[3]), LocationKey(a[2]))

\* every slot of stages is present in the session
AllPresent(stages) == \A i \in 1..Len(stages) : Has(state, stages[i].key)

\* C13 as stated: once every source slot, aggregated, deduplicated and final
\* are present, the supervisor returns next = "end".
C13_EndWhenPipelineSlotsPresent ==
    (Routed /\ AllPresent(PipelineStages(wf))) => state.next_agent = "end"

\* the supervisor of the running workflow, invoked on the session
SupervisorInvoked ==
    IF wf = "enhanced" THEN EnhancedSupervisorNode_run(state)
    ELSE IF wf = "simplified" THEN SimplifiedSupervisorNode_run(state)
    ELSE LegacySupervisorNode_run(state)

\* C13: the supervisor, run on a session in which every slot the graph routes
\* on is present (the source slots, aggregated, deduplicated, final,
\* export_files and summary), routes to the end, runs no stage and changes no
\* field other than next_agent; invoked again on the resulting session it
\* changes nothing at all.
C13_EndStateNoOp ==
    /\ [][(pc = "supervisor" /\ pc' # "supervisor" /\ AllPresent(GraphStages(wf)))
            => /\ pc' = "END"
               /\ state'.next_agent = "end"
               /\ DOMAIN state' = DOMAIN state
               /\ \A k \in DOMAIN state \ {"next_agent"} : state'[k] = state[k]]_vars
    /\ [](pc = "END" => SupervisorInvoked = state)

C13_Witness ==
    /\ pc = "END"
    /\ AllPresent(GraphStages(wf))
    /\ state.final_locations # <<>>
    /\ SupervisorInvoked = state

(***************************************************************************)
(* Stages called again.  A caller holding the stage objects calls run() of *)
(* a stage on a session that already holds the stage's slot, between two   *)
(* supersteps of the graph, at most MaxReentries times in a run.  The run  *)
(* starts from the session the aggregator returned, Google Maps having     *)
(* returned the candidates.                                                *)
(***************************************************************************)
LaterSlots == {"deduplicated_locations", "enriched_locations", "export_files", "summary"}

\* the direct calls made so far: the supersteps beyond the two each stage
\* after the aggregator takes
Reentries ==
    steps - StepsToAggregated(wf)
          - 2 * Cardinality({k \in LaterSlots : Has(state, k)})

InitReentered ==
    /\ wf \in Workflows
    /\ \E req \in Requests, list \in ListsUpTo(SourcePool, MaxCandidates) :
           state = AggregatedSession(wf, req, TaggedList(list, "google_maps"), <<>>)
    /\ pc = "supervisor"
    /\ steps = StepsToAggregated(wf)
    /\ result = <<>>
    /\ last = [node |-> "aggregator", kind |-> "ok"]
    /\ raised = 0
    /\ job = [status |-> "running"]
    /\ environ = KeyedEnviron
    /\ workflow = KeyedWorkflow
    /\ cleanings = aggregated_cleanings(wf, state.company_url)

\* stage.run(state) is about to be called on a session holding the stage's slot
Reenter ==
    /\ pc = "supervisor"
    /\ Reentries < MaxReentries
    /\ \E i \in 1..Len(PipelineStages(wf)) :
           /\ Has(state, PipelineStages(wf)[i].key)
           /\ pc' = PipelineStages(wf)[i].agent
    /\ UNCHANGED <<wf, state, steps, result, last, raised, job, environ, workflow, cleanings>>

NextReentered ==
    \/ Reenter
    \/ NextValidator
    \/ Enhanced_google_maps
    \/ Enhanced_tavily_search
    \/ Enhanced_web_scraper
    \/ Enhanced_sec_filing
    \/ Enhanced_multi_search
    \/ Enhanced_industry_specific
    \/ Enhanced_directory
    \/ Enhanced_aggregator
    \/ Simplified_google_maps
    \/ Simplified_tavily_search
    \/ Simplified_web_scraper
    \/ Simplified_directory
    \/ Simplified_aggregator
    \/ Legacy_google_maps
    \/ Legacy_tavily_search
    \/ Legacy_web_scraper
    \/ Legacy_sec_filing
    \/ Legacy_aggregator

SpecReentered == InitReentered /\ [][NextReentered]_vars

\* C14: a source stage, the aggregator, the validator or the enricher, run on
\* a session that already holds the stage's slot (empty or not), returns the
\* session as it was: no slot, message or error changes, and no collaborator
\* failure is counted.
C14_PresentSlotNoOp ==
    [][\A i \in 1..Len(PipelineStages(wf)) :
           (/\ pc = PipelineStages(wf)[i].agent
            /\ Has(state, PipelineStages(wf)[i].key)
            /\ pc' = "supervisor")
           => (state' = state /\ raised' = raised)]_vars

C14_Witness ==
    /\ last = [node |-> "enricher", kind |-> "noop"]
    /\ pc = "supervisor"
    /\ state.final_locations = <<>>
    /\ state.google_maps_results = <<>>

\* C15: a slot that is present stays present with the value it has, in every
\* step of a run; so each slot goes from absent to present at most once.
C15_SlotsMonotonic ==
    [][\A i \in 1..Len(PipelineStages(wf)) :
           Has(state, PipelineStages(wf)[i].key)
           => /\ Has(state', PipelineStages(wf)[i].key)
              /\ state'[PipelineStages(wf)[i].key] = state[PipelineStages(wf)[i].key]]_vars

C15_Witness ==
    /\ pc = "END"
    /\ AllPresent(PipelineStages(wf))
    /\ Len(state.all_locations) > Len(state.deduplicated_locations)
    /\ state.deduplicated_locations # <<>>

\* C16: in a run of the graph a stage is entered only while its slot is absent
\* and leaves it present, and a present slot stays present: so the body of a
\* stage, the part after the presence guard, executes at most once.
C16_StageBodyAtMostOnce ==
    [][/\ \A i \in 1..Len(PipelineStages(wf)) :
              (pc = PipelineStages(wf)[i].agent /\ pc' = "supervisor")
              => /\ ~Has(state, PipelineStages(wf)[i].key)
                 /\ Has(state', PipelineStages(wf)[i].key)
                 /\ last'.node = PipelineStages(wf)[i].agent
       /\ \A k \in DOMAIN state : k \in DOMAIN state']_vars

C16_Witness ==
    /\ pc = "returned"
    /\ AllPresent(PipelineStages(wf))
    /\ last.node \in {"summary", "summary_generator"}
    /\ steps = 2 * Len(GraphStages(wf)) + 1

(***************************************************************************)
(* Runs that abort.  A write of the exporter (to_csv, open, json.dump) is  *)
(* not inside a try block, so its exception leaves the node and            *)
(* graph.invoke; the except clause of discover() turns it into a result.   *)
(* process_single_company, the caller deployed by src/api/main.py, then    *)
(* stores the result in the job record.  The run starts from the session   *)
(* the aggregator returned.                                                *)
(***************************************************************************)
\* the dict the except clause of discover() returns for the exception text e
discover_except(w, st, e) ==
    IF w = "legacy"
    THEN [company |-> st.company_name, url |-> st.company_url,
          locations |-> <<>>, summary |-> [error |-> e],
          messages |-> <<>>, errors |-> <<e>>]
    ELSE [company |-> st.company_name, url |-> st.company_url,
          locations |-> <<>>, summary |-> [error |-> e],
          export_files |-> <<>>, messages |-> <<>>, errors |-> <<e>>]

\* a file write of the exporter raises
Exporter_raises ==
    /\ pc = "exporter" /\ steps < recursion_limit(wf)
    /\ ~Truthy(state, "export_files")
    /\ result' = discover_except(wf, state, "write failed")
    /\ pc' = "returned"
    /\ last' = [node |-> "exporter", kind |-> "raised"]
    /\ UNCHANGED <<wf, state, steps, raised, job, environ, workflow, cleanings>>

\* process_single_company after workflow.discover() returned: final_result
\* is cached and stored, and the job is completed
process_single_company ==
    /\ wf = "enhanced" /\ pc = "returned"
    /\ job' = [status |-> "completed",
               results |-> [locations |-> result.locations,
                            summary |-> result.summary,
                            errors |-> result.errors,
                            export_files |-> result.export_files]]
    /\ pc' = "reported"
    /\ UNCHANGED <<wf, state, steps, result, last, raised, environ, workflow, cleanings>>

InitAborting ==
    /\ wf \in Workflows
    /\ \E req \in Requests, list \in ListsUpTo(SourcePool, MaxCandidates) :
           state = AggregatedSession(wf, req, TaggedList(list, "google_maps"), <<>>)
    /\ pc = "supervisor"
    /\ steps = StepsToAggregated(wf)
    /\ result = <<>>
    /\ last = [node |-> "aggregator", kind |-> "ok"]
    /\ raised = 0
    /\ job = [status |-> "running"]
    /\ environ = KeyedEnviron
    /\ workflow = KeyedWorkflow
    /\ cleanings = aggregated_cleanings(wf, state.company_url)

NextAborting ==
    \/ NextValidator
    \/ Exporter_raises
    \/ process_single_company

SpecAborting == InitAborting /\ [][NextAborting]_vars

\* discover() returned through its except clause
Aborted == pc \in {"returned", "reported"} /\ "error" \in DOMAIN result.summary

\* the session or the returned result carries status "failed"
MarkedFailed ==
    \/ Has(state, "status") /\ state.status = "failed"
    \/ Has(result, "status") /\ result.status = "failed"

\* C17: once an exception has escaped graph.invoke, the session is marked
\* failed, the final list is absent or empty, and the message of the
\* exception is in errors.
C17_EscapedExceptionMarksFailed ==
    Aborted => /\ MarkedFailed
               /\ result.locations = <<>>
               /\ result.errors = <<result.summary.error>>

\* C18: the job record of a run that aborted is not "completed", and the job
\* record of a run that completed with no location is not "failed".
C18_FailedDistinctFromEmpty ==
    pc = "reported" =>
        /\ Aborted => job.status # "completed"
        /\ (~Aborted /\ result.locations = <<>>) => job.status # "failed"

(***************************************************************************)
(* Runs with a stage that breaks its contract: the validator or the        *)
(* enricher may return without setting its slot.  The supervisor then      *)
(* routes to the stage again, and graph.invoke raises GraphRecursionError  *)
(* once recursion_limit supersteps have run without reaching END.          *)
(***************************************************************************)
Stage_returns_without_slot ==
    /\ pc \in {"deduplication", "enricher"} /\ steps < recursion_limit(wf)
    /\ last' = [node |-> pc, kind |-> "violated"]
    /\ UNCHANGED <<state, raised, cleanings>>
    /\ BackToSupervisor

\* graph.invoke gives up at the recursion limit; discover() catches the error
recursion_limit_exceeded ==
    /\ pc \in GraphNodes(wf) /\ steps >= recursion_limit(wf)
    /\ result' = discover_except(wf, state, "recursion limit")
    /\ pc' = "returned"
    /\ UNCHANGED <<wf, state, steps, last, raised, job, environ, workflow, cleanings>>

NextViolating ==
    \/ NextAborting
    \/ Stage_returns_without_slot
    \/ recursion_limit_exceeded

SpecViolating == InitAborting /\ [][NextViolating]_vars

\* the run was given up at the recursion limit
CapTripped == Aborted /\ result.errors = <<"recursion limit">>

\* C19: a run in which a stage keeps returning without its slot is given up
\* at the iteration cap, and then surfaces as status failed.
C19_CapSurfacesFailed ==
    CapTripped => \/ MarkedFailed
                  \/ pc = "reported" /\ job.status = "failed"
                  \/ pc = "returned" /\ wf = "enhanced"

\* C20: once the enricher has run, the i-th record of the final list carries
\* the identifier LOC_ followed by i padded to three digits, and every record
\* has a non-empty name.
C20_IdentifiersAndNames ==
    Has(state, "final_locations") =>
        \A i \in 1..Len(state.final_locations) :
            /\ "location_id" \in DOMAIN state.final_locations[i]
            /\ state.final_locations[i].location_id = LocationId(i)
            /\ state.final_locations[i].name # <<>>

\* C21: the headquarters table is consulted only for an empty deduplicated
\* list: a non-empty deduplicated gives a final without a record tagged
\* known_headquarters; an empty one gives the single headquarters record when
\* the company name is in the table, and otherwise an empty final and a note
\* in the log that no agent found a location.
C21_HeadquartersFallback ==
    Has(state, "final_locations") =>
        IF state.deduplicated_locations # <<>>
        THEN \A i \in 1..Len(state.final_locations) :
                 state.final_locations[i].source # "known_headquarters"
        ELSE IF InHeadquartersTable(state.company_name)
        THEN /\ Len(state.final_locations) = 1
             /\ state.final_locations[1].source = "known_headquarters"
        ELSE /\ state.final_locations = <<>>
             /\ \E i \in 1..Len(state.messages) :
                    state.messages[i] = TextMessage("No locations found by any agents")

(***************************************************************************)
(* The first statements of discover(): the raw company_url of the request  *)
(* is cleaned once and stored in initial_state.  The raw values are the    *)
(* short texts over UrlAlphabet, bare or behind a scheme prefix.           *)
(***************************************************************************)
UrlAlphabet == {"a", "n", "N", "/", "@", ":", " "}

RawUrls ==
    {p \o body : p \in {<<>>, str_http, str_https},
                 body \in UNION {[1..k -> UrlAlphabet] : k \in 0..MaxUrlLen}}

InitUrl ==
    /\ wf \in Workflows
    /\ \E raw \in RawUrls : state = [company_name |-> str_Acme, company_url |-> raw]
    /\ pc = "discover"
    /\ steps = 0
    /\ result = <<>>
    /\ last = [node |-> "none", kind |-> "none"]
    /\ raised = 0
    /\ job = [status |-> "running"]
    /\ environ = KeyedEnviron
    /\ workflow = KeyedWorkflow
    /\ cleanings = 0

\* discover() builds initial_state from its arguments
discover_begin ==
    /\ pc = "discover"
    /\ state' = initial_state(wf, state.company_name, state.company_url)
    /\ cleanings' = cleanings + discover_cleanings(state.company_url)
    /\ pc' = "supervisor"
    /\ UNCHANGED <<wf, steps, result, last, raised, job, environ, workflow>>

SpecUrl == InitUrl /\ [][discover_begin]_vars

\* the host of a url with a scheme prefix: the text of its authority after
\* the user information and before the port
hostname(url) ==
    LET authority == netloc(url)
        ats    == {i \in 1..Len(authority) : authority[i] = "@"}
        start  == IF ats = {} THEN 1
                  ELSE (CHOOSE i \in ats : \A j \in ats : j <= i) + 1
        colons == {i \in start..Len(authority) : authority[i] = ":"}
        stop   == IF colons = {} THEN Len(authority) + 1
                  ELSE CHOOSE i \in colons : \A j \in colons : i <= j
    IN  SubSeq(authority, start, stop - 1)

\* the raw values that stand for an absent URL
AbsentUrl(raw) ==
    lower(strip(raw)) \in { <<>>, <<"n", "a", "n">>, <<"n", "o", "n", "e">>,
                            <<"n", "u", "l", "l">>, <<"n", "/", "a">>, <<"n", "a">> }

\* C22: the cleaned URL is empty or has a scheme and a non-empty host; an
\* absent raw value gives the empty string; a raw value without a scheme
\* prefix is returned, if at all, behind "https://".
C22_UrlNormalized ==
    [][pc = "discover" =>
          /\ \/ state'.company_url = <<>>
             \/ /\ startswith(state'.company_url, str_http)
                      \/ startswith(state'.company_url, str_https)
                /\ hostname(state'.company_url) # <<>>
          /\ AbsentUrl(state.company_url) => state'.company_url = <<>>
          /\ (~startswith(strip(state.company_url), str_http)
                /\ ~startswith(strip(state.company_url), str_https))
             => state'.company_url \in {<<>>, str_https \o strip(state.company_url)}]_vars

(***************************************************************************)
(* A session that follows other sessions in the same server process.       *)
(* os.environ holds the keys the workflows of earlier requests stored in   *)
(* it ("other"), the request brings its own keys ("own") or leaves them    *)
(* out ("none").  The run is followed through the two stages whose         *)
(* collaborators need an API key.                                          *)
(***************************************************************************)
InitSessions ==
    /\ wf = "enhanced"
    /\ \E req \in Requests, google, tavily \in {"none", "own"} :
           state = [company_name |-> req.company_name,
                    company_url  |-> req.company_url,
                    api_keys |-> [google_maps_api_key |-> google,
                                  tavily_api_key |-> tavily]]
    /\ environ \in [{"GOOGLE_MAPS_API_KEY", "TAVILY_API_KEY"} -> {"none", "other"}]
    /\ workflow = <<>>
    /\ cleanings = 0
    /\ pc = "request"
    /\ steps = 0
    /\ result = <<>>
    /\ last = [node |-> "none", kind |-> "none"]
    /\ raised = 0
    /\ job = [status |-> "running"]

\* SuperEnhancedDiscoveryWorkflow(api_keys=...) as process_single_company
\* calls it: the supplied keys are stored in os.environ, and a node without
\* a supplied key takes the one os.getenv finds
SuperEnhancedDiscoveryWorkflow_init ==
    /\ pc = "request"
    /\ LET api_keys == state.api_keys
           env == [GOOGLE_MAPS_API_KEY |->
                       IF api_keys.google_maps_api_key # "none"
                       THEN api_keys.google_maps_api_key
                       ELSE environ.GOOGLE_MAPS_API_KEY,
                   TAVILY_API_KEY |->
                       IF api_keys.tavily_api_key # "none"
                       THEN api_keys.tavily_api_key
                       ELSE environ.TAVILY_API_KEY]
       IN  /\ environ' = env
           /\ workflow' = [api_keys |-> api_keys,
                           google_maps_api_key |-> env.GOOGLE_MAPS_API_KEY,
                           tavily_api_key |-> env.TAVILY_API_KEY]
    /\ state' = [company_name |-> state.company_name,
                 company_url |-> state.company_url]
    /\ pc' = "discover"
    /\ UNCHANGED <<wf, steps, result, last, raised, job, cleanings>>

NextSessions ==
    \/ SuperEnhancedDiscoveryWorkflow_init
    \/ discover_begin
    \/ Enhanced_supervisor
    \/ Enhanced_google_maps
    \/ Enhanced_tavily_search

SpecSessions == InitSessions /\ [][NextSessions]_vars

\* C23: the slots of a session do not depend on what other sessions
\* supplied: a session whose request brings no key for a collaborator runs
\* with that collaborator disabled and an empty slot, whatever keys other
\* sessions had.
C23_SessionsIndependent ==
    pc \notin {"request", "discover"} =>
        /\ (Has(state, "google_maps_results")
              /\ workflow.api_keys.google_maps_api_key = "none")
           => state.google_maps_results = <<>>
        /\ (Has(state, "tavily_search_results")
              /\ workflow.api_keys.tavily_api_key = "none")
           => state.tavily_search_results = <<>>

\* C24: aggregated is the concatenation of the source slots in the order in
\* which the supervisor schedules the source stages.
C24_AggregatedInSupervisorOrder ==
    Has(state, "all_locations") =>
        state.all_locations =
            Collect(state,
                    [i \in 1..Len(SourceStages(wf)) |-> SourceStages(wf)[i].key], 1)

(***************************************************************************)
(* Runs of the two validators that build the key f"{city}_{name[:20]}",    *)
(* from the session the aggregator returned.  Three candidates of the pool *)
(* share a key: one carries a placeholder text in its address, one writes  *)
(* the city differently; two more have names one within the other.         *)
(***************************************************************************)
ListedPool ==
    { Location(str_Austin, str_HQ, str_Test_Location, "pool"),
      Location(str_austin_trailing, str_HQ, str_Main_St, "pool"),
      Location(str_Austin, str_HQ, <<>>, "pool"),
      Location(str_Austin, str_Headquarters, <<>>, "pool"),
      Location(str_Austin, str_Headquarters_Office, <<>>, "pool") }

InitListed ==
    /\ wf \in {"enhanced", "simplified"}
    /\ \E req \in Requests, list \in ListsUpTo(ListedPool, MaxListed) :
           state = AggregatedSession(wf, req, TaggedList(list, "google_maps"), <<>>)
    /\ pc = "supervisor"
    /\ steps = StepsToAggregated(wf)
    /\ result = <<>>
    /\ last = [node |-> "aggregator", kind |-> "ok"]
    /\ raised = 0
    /\ job = [status |-> "running"]
    /\ environ = KeyedEnviron
    /\ workflow = KeyedWorkflow
    /\ cleanings = aggregated_cleanings(wf, state.company_url)

NextListed ==
    \/ Enhanced_supervisor
    \/ Enhanced_deduplication
    \/ Enhanced_enricher
    \/ Enhanced_exporter
    \/ Enhanced_summary_generator
    \/ Enhanced_discover_return
    \/ Simplified_supervisor
    \/ Simplified_deduplication
    \/ Simplified_enricher
    \/ Simplified_exporter
    \/ Simplified_summary_generator
    \/ Simplified_discover_return

SpecListed == InitListed /\ [][NextListed]_vars

\* the composite key: case-folded trimmed city, first 20 characters of the
\* case-folded trimmed name
CompositeKey(loc) ==
    <<strip(lower(loc.city)), prefix(strip(lower(loc.name)), 20)>>

\* deduplicated holds no key twice, and its records are, in order, the
\* trimmed copies of the first candidates of candidates with their keys
FirstSeenWins(candidates) ==
    LET kept  == state.deduplicated_locations
        keys  == [i \in 1..Len(candidates) |-> CompositeKey(candidates[i])]
        first == [a \in 1..Len(kept) |->
                     LET same == {i \in 1..Len(keys) : keys[i] = CompositeKey(kept[a])}
                     IN  IF same = {} THEN 0
                         ELSE CHOOSE i \in same : \A j \in same : i <= j]
    IN  /\ Len(keys) = Len(candidates)
        /\ Len(first) = Len(kept)
        /\ \A a, b \in 1..Len(kept) :
               a < b => /\ CompositeKey(kept[a]) # CompositeKey(kept[b])
                        /\ first[a] < first[b]
        /\ \A a \in 1..Len(kept) :
               /\ first[a] > 0
               /\ kept[a].name = strip(candidates[first[a]].name)
               /\ kept[a].address = strip(candidates[first[a]].address)
               /\ kept[a].source = candidates[first[a]].source

\* C25 as stated: no two records of deduplicated share a composite key, they
\* keep the order of aggregated, and each is the first candidate of
\* aggregated with its key.
C25_FirstSeenOfAggregated ==
    Has(state, "deduplicated_locations") => FirstSeenWins(state.all_locations)

\* a candidate the validator of the running workflow lets through to the
\* key comparison
PassesFilter(loc) ==
    IF wf = "enhanced" THEN IsRealLocation(loc)
    ELSE Len(strip(lower(loc.city))) >= 2

\* C25: no two records of deduplicated share a composite key, they keep the
\* order of aggregated, and each is the trimmed copy of the first candidate
\* with its key among the aggregated candidates that pass the validator's
\* filter.
C25_FirstSeenOfFiltered ==
    Has(state, "deduplicated_locations") =>
        FirstSeenWins(SelectSeq(state.all_locations, PassesFilter))

C25_Witness ==
    /\ wf = "enhanced"
    /\ Has(state, "deduplicated_locations")
    /\ Len(state.all_locations) = 3
    /\ ~IsRealLocation(state.all_locations[1])
    /\ CompositeKey(state.all_locations[1]) = CompositeKey(state.all_locations[2])
    /\ CompositeKey(state.all_locations[2]) = CompositeKey(state.all_locations[3])
    /\ Len(state.deduplicated_locations) = 1
    /\ state.deduplicated_locations[1].address = str_Main_St

(***************************************************************************)
(* Candidates with a field that is no string.  _extract_locations_from_page *)
(* takes the records of the JSON array the model answered and checks only  *)
(* city; _deduplicate_web_results reads city and address.  A record whose  *)
(* name is null reaches aggregated with name = None, and                   *)
(* loc.get('name', '').lower() of _filter_fake_locations raises            *)
(* AttributeError.  EnhancedDeduplicationNode.run has no try block, so the *)
(* exception leaves graph.invoke and discover() returns through its except *)
(* clause.                                                                 *)
(***************************************************************************)
\* None as the value of a field of a candidate: no sequence of characters
NoneValue == <<"None">>

\* the candidates the web scraper extracts from a page
ScrapedPool ==
    { Location(str_Austin, str_HQ, <<>>, "company_website"),
      Location(str_Austin, NoneValue, str_Main_St, "company_website"),
      Location(str_Dallas, NoneValue, <<>>, "company_website") }

\* .lower() of a field of a candidate of locations raises
_filter_fake_locations_raises(locations) ==
    \E i \in 1..Len(locations) :
        NoneValue \in {locations[i].city, locations[i].name, locations[i].address}

\* the session after the source stages and the aggregator of the enhanced
\* workflow ran, the web scraper having returned web
ScrapedSession(req, web) ==
    LET s0 == initial_state("enhanced", req.company_name, req.company_url)
        s1 == SuperEnhancedGoogleMapsAgentNode_run(s0, "ok", <<>>)
        s2 == SuperEnhancedTavilySearchAgentNode_run(s1, "ok", <<>>)
        s3 == SuperEnhancedWebScraperAgentNode_run(s2, "ok", web)
        s4 == SECFilingsAgentNode_run(s3, "ok", <<>>)
        s5 == MultiSearchEngineAgentNode_run(s4, "ok", <<>>)
        s6 == IndustrySpecificAgentNode_run(s5, "ok", <<>>)
        s7 == EnhancedBusinessDirectoryAgentNode_run(s6, "ok", <<>>)
    IN  AggregatorNode_run(Put(s7, "next_agent", "aggregator"))

\* the deduplication node on the candidates of the web scraper: run() either
\* returns the session or raises out of the graph
Enhanced_deduplication_scraped ==
    /\ AtNode("enhanced", "deduplication")
    /\ IF /\ ~Has(state, "deduplicated_locations")
          /\ _filter_fake_locations_raises(GetList(state, "all_locations"))
       THEN /\ result' = discover_except(wf, state, "AttributeError")
            /\ pc' = "returned"
            /\ last' = [node |-> "deduplication", kind |-> "raised"]
            /\ UNCHANGED <<wf, state, steps, raised, job, environ, workflow, cleanings>>
       ELSE ProcessingNode("deduplication", EnhancedDeduplicationNode_run(state))

InitScraped ==
    /\ wf = "enhanced"
    /\ \E req \in Requests, web \in ListsUpTo(ScrapedPool, MaxAggregated) :
           state = ScrapedSession(req, web)
    /\ pc = "supervisor"
    /\ steps = StepsToAggregated(wf)
    /\ result = <<>>
    /\ last = [node |-> "aggregator", kind |-> "ok"]
    /\ raised = 0
    /\ job = [status |-> "running"]
    /\ environ = KeyedEnviron
    /\ workflow = KeyedWorkflow
    /\ cleanings = discover_cleanings(state.company_url) + 1

NextScraped ==
    \/ Enhanced_supervisor
    \/ Enhanced_deduplication_scraped
    \/ Enhanced_enricher
    \/ Enhanced_exporter
    \/ Enhanced_summary_generator
    \/ Enhanced_discover_return
    \/ process_single_company

SpecScraped == InitScraped /\ [][NextScraped]_vars

\* the validator ran on an aggregated list with a candidate whose field is
\* no string
ValidatorMetMalformed ==
    /\ last.node = "deduplication"
    /\ _filter_fake_locations_raises(GetList(state, "all_locations"))

\* C26: an internal error of the validator is caught inside the stage:
\* deduplicated is [] and errors holds one entry, and the run goes on to the
\* enricher instead of returning through the except clause of discover().
C26_ValidatorErrorCaught ==
    ValidatorMetMalformed =>
        /\ ~Aborted
        /\ Has(state, "deduplicated_locations")
        /\ state.deduplicated_locations = <<>>
        /\ Len(GetList(state, "errors")) = 1

\* record is trimmed, its city is in title case, and a candidate of aggregated
\* with its key carries its source tag
Normalized(record, candidates) ==
    /\ record.name = strip(record.name)
    /\ record.address = strip(record.address)
    /\ record.city = strip(record.city)
    /\ record.city = title(record.city)
    /\ \E i \in 1..Len(candidates) :
           /\ CompositeKey(candidates[i]) = CompositeKey(record)
           /\ candidates[i].source = record.source

\* C27: every record of deduplicated has its textual fields trimmed, its city
\* in title case, and the source tag of the aggregated candidate it was built
\* from.
C27_DeduplicatedNormalized ==
    Has(state, "deduplicated_locations") =>
        \A a \in 1..Len(state.deduplicated_locations) :
            Normalized(state.deduplicated_locations[a], state.all_locations)

\* the body of the stage owning slot key executes in this step
StageBodyRuns(key) == ~Has(state, key) /\ Has(state', key)

\* the result slots of the source stages of workflow w
SourceSlots(w) == {SourceStages(w)[i].key : i \in 1..Len(SourceStages(w))}

\* C28: the aggregator body executes only when every source slot is present,
\* the validator body only when aggregated is present, the enricher body only
\* when deduplicated is present; aggregated holds as many candidates as the
\* source slots together.
C28_StageOrdering ==
    [][/\ StageBodyRuns("all_locations") => AllPresent(SourceStages(wf))
       /\ StageBodyRuns("deduplicated_locations") => Has(state, "all_locations")
       /\ StageBodyRuns("enriched_locations") =>
              Has(state, "deduplicated_locations")
       /\ Has(state', "all_locations") =>
              Len(state'.all_locations) = SumLen(state', SourceSlots(wf))]_vars

\* the enricher has run on a list aggregated from the first and the last
\* source stage of the enhanced supervisor
C28_Witness ==
    /\ wf = "enhanced"
    /\ Has(state, "enriched_locations")
    /\ Len(GetList(state, "google_maps_results")) = 1
    /\ Len(GetList(state, "directory_results")) = 1
    /\ Len(state.all_locations) = 2

\* the slots of the pipeline: the source slots, aggregated, deduplicated,
\* enriched and final
PipelineSlots(w) ==
    SourceSlots(w) \cup {"all_locations", "deduplicated_locations",
                         "enriched_locations", "final_locations"}

\* the node owning slot key in workflow w
Owner(w, key) ==
    IF key = "enriched_locations" THEN "enricher"
    ELSE LET i == CHOOSE j \in 1..Len(PipelineStages(w)) :
                      PipelineStages(w)[j].key = key
         IN  PipelineStages(w)[i].agent

\* slot key has the same presence and the same value in st and in next
SlotUnchanged(st, next, key) ==
    /\ Has(st, key) <=> Has(next, key)
    /\ Has(st, key) => st[key] = next[key]

\* C29: a step changes a slot of the pipeline only when the node owning the
\* slot runs: a source stage, the aggregator, the validator and the enricher
\* each leave every slot they do not own unchanged.
C29_StagesWriteOwnSlots ==
    [][\A key \in PipelineSlots(wf) :
           SlotUnchanged(state, state', key) \/ pc = Owner(wf, key)]_vars

\* the enhanced enricher has written its slots from the record the validator kept of
\* two aggregated candidates
C29_Witness ==
    /\ wf = "enhanced"
    /\ last.node = "enricher" /\ last.kind = "ok"
    /\ Has(state, "final_locations")
    /\ Len(state.all_locations) = 2
    /\ Len(state.deduplicated_locations) = 1
    /\ state.final_locations # state.deduplicated_locations

\* C30 as stated: clean_and_validate_url runs once, when discover() creates
\* the session, and no step of the graph runs it again or changes
\* company_url.
C30_NormalizedOnce ==
    [][/\ cleanings' = cleanings
       /\ state'.company_url = state.company_url]_vars

\* C30, amended: no step of the graph changes company_url, and the stages
\* that clean the stored url again (the web scraper, the summary) get the
\* stored value back.
C30_StoredUrlImmutable ==
    [][/\ state'.company_url = state.company_url
       /\ clean_and_validate_url(state'.company_url) = state'.company_url]_vars

\* an enhanced session whose url was cleaned by discover(), by the web
\* scraper and by the summary, and still holds the value stored at creation
C30_Witness ==
    /\ wf = "enhanced" /\ pc = "END"
    /\ cleanings = 3
    /\ state.company_url = str_https \o str_acme_com
    /\ state.summary.url = state.company_url

\* earlier is a prefix of later
IsPrefix(earlier, later) ==
    /\ Len(earlier) <= Len(later)
    /\ \A i \in 1..Len(earlier) : earlier[i] = later[i]

\* C31: messages and errors are append-only: in every step their value
\* before the step is a prefix of their value after it.
C31_LogAppendOnly ==
    [][/\ IsPrefix(state.messages, state'.messages)
       /\ IsPrefix(state.errors, state'.errors)]_vars

\* a finished run whose stages appended to both sequences
C31_Witness ==
    /\ pc = "END"
    /\ Len(state.errors) >= 1
    /\ Len(state.messages) >= 5

(***************************************************************************)
(* Candidates at the edge of the validator: a marker that appears only in   *)
(* the text f"{city} {name} {address}" the filter joins, a city of one     *)
(* character, and a city and a name that hold the separator "_" of the     *)
(* comparison key f"{city}_{name[:20]}".                                   *)
(***************************************************************************)
EdgePool ==
    { Location(<<"T", "e", "s", "t">>, <<"L", "o", "c", "a", "t", "i", "o", "n">>,
               <<>>, "pool"),
      Location(<<"Y">>, str_HQ, <<>>, "pool"),
      Location(str_Austin, str_HQ, <<>>, "pool"),
      Location(str_Austin, <<"E", "_">> \o str_HQ, <<>>, "pool"),
      Location(str_Austin \o <<"_", "E">>, str_HQ, <<>>, "pool") }

InitEdge ==
    /\ wf \in {"enhanced", "simplified"}
    /\ \E req \in Requests, list \in ListsUpTo(EdgePool, MaxAggregated) :
           state = AggregatedSession(wf, req, TaggedList(list, "google_maps"), <<>>)
    /\ pc = "supervisor"
    /\ steps = StepsToAggregated(wf)
    /\ result = <<>>
    /\ last = [node |-> "aggregator", kind |-> "ok"]
    /\ raised = 0
    /\ job = [status |-> "running"]
    /\ environ = KeyedEnviron
    /\ workflow = KeyedWorkflow
    /\ cleanings = aggregated_cleanings(wf, state.company_url)

SpecEdge == InitEdge /\ [][NextListed]_vars

\* none of city, name and address of loc contains a placeholder marker, and
\* its city is not empty after trimming
Plausible(loc) ==
    /\ strip(loc.city) # <<>>
    /\ \A indicator \in fake_indicators :
           /\ ~contains(lower(loc.city), indicator)
           /\ ~contains(lower(loc.name), indicator)
           /\ ~contains(lower(loc.address), indicator)

\* C32: a candidate with a non-empty city and no placeholder marker in its
\* city, its name or its address is kept by the filter: deduplicated holds a
\* record with its composite key.
C32_PlausibleKept ==
    Has(state, "deduplicated_locations") =>
        \A i \in 1..Len(state.all_locations) :
            Plausible(state.all_locations[i]) =>
                \E a \in 1..Len(state.deduplicated_locations) :
                    CompositeKey(state.deduplicated_locations[a])
                        = CompositeKey(state.all_locations[i])

(***************************************************************************)
(* The validator on the same candidates in another order.  The pool holds  *)
(* a name that is similar to two names that are not similar to each other. *)
(***************************************************************************)
ReorderedPool ==
    { Location(str_Austin, str_Headquarters, <<>>, "pool"),
      Location(str_Austin, str_Headquarters_Office, <<>>, "pool"),
      Location(str_Austin, str_Office, <<>>, "pool") }

InitReordered ==
    /\ wf \in {"enhanced", "simplified"}
    /\ \E req \in Requests, list \in ListsUpTo(ReorderedPool, MaxIterated) :
           state = AggregatedSession(wf, req, TaggedList(list, "google_maps"), <<>>)
    /\ pc = "supervisor"
    /\ steps = StepsToAggregated(wf)
    /\ result = <<>>
    /\ last = [node |-> "aggregator", kind |-> "ok"]
    /\ raised = 0
    /\ job = [status |-> "running"]
    /\ environ = KeyedEnviron
    /\ workflow = KeyedWorkflow
    /\ cleanings = aggregated_cleanings(wf, state.company_url)

SpecReordered == InitReordered /\ [][NextListed]_vars

\* the candidates of list in the order p of their positions
Reordered(list, p) == [i \in 1..Len(list) |-> list[p[i]]]

\* what the validator of workflow w makes of an aggregated list
Validated(w, all_locations) ==
    IF w = "enhanced" THEN EnhancedDeduplicate(all_locations)
    ELSE _basic_deduplicate(all_locations)

\* C33: the validator gives, for every other order of the aggregated
\* candidates, as many records as it gave for this one, and each of them has
\* the key of, or is a duplicate of, a record it gave for this one.
C33_OrderIndependent ==
    Has(state, "deduplicated_locations") =>
        \A p \in Listings(1..Len(state.all_locations)) :
            LET kept  == state.deduplicated_locations
                other == Validated(wf, Reordered(state.all_locations, p))
            IN  /\ Len(other) = Len(kept)
                /\ \A a \in 1..Len(other) : \E b \in 1..Len(kept) :
                       \/ CompositeKey(other[a]) = CompositeKey(kept[b])
                       \/ KeysSimilar(other[a], kept[b])

\* C34: final and enriched are present together with the same content, and a
\* session whose status is "completed" holds every source slot, aggregated,
\* deduplicated and final.
C34_CompletedHasFinal ==
    /\ Has(state, "final_locations") <=> Has(state, "enriched_locations")
    /\ Has(state, "final_locations") =>
           state.final_locations = state.enriched_locations
    /\ (Has(state, "status") /\ state.status = "completed") =>
           /\ AllPresent(PipelineStages(wf))
           /\ Has(state, "enriched_locations")

\* a completed session with a final record
C34_Witness ==
    /\ Has(state, "status") /\ state.status = "completed"
    /\ Len(state.final_locations) >= 1
    /\ state.final_locations = state.enriched_locations

\* C35: candidates of different cities are never duplicates of each other:
\* every candidate that passes the filter has its case-folded trimmed city in
\* deduplicated.
C35_CitiesNeverMerged ==
    Has(state, "deduplicated_locations") =>
        LET filtered == SelectSeq(state.all_locations, PassesFilter)
        IN  \A i \in 1..Len(filtered) :
                \E a \in 1..Len(state.deduplicated_locations) :
                    strip(lower(state.deduplicated_locations[a].city))
                        = strip(lower(filtered[i].city))

(***************************************************************************)
(* The job record of src/api/main.py.  job is jobs_storage[job_id], <<>>    *)
(* when the id is not a key of jobs_storage; results = <<>> stands for      *)
(* None.  The endpoints and the background tasks are coroutines of one     *)
(* event loop: a handler runs only while the task is not running, that is  *)
(* before the task starts, at the await asyncio.sleep(1) of                *)
(* process_batch_companies, and after the task ended.  pc is the position  *)
(* of the task; result is the last answer of get_job_results.              *)
(***************************************************************************)
\* JobStatus(...).dict() as the discovery endpoints store it
PendingJob(message) ==
    [status |-> "pending", progress |-> 0, message |-> message, results |-> <<>>]

\* the writes of an except clause of a task
FailedJob(j, message) ==
    [status |-> "failed", progress |-> j.progress, message |-> message,
     results |-> j.results, errors |-> <<"error">>]

\* a completing task that stores the results and leaves the status alone
CompletedJob_keeping_status(j, message, results) ==
    [j EXCEPT !.progress = 100, !.message = message, !.results = results]

\* the writes of a task that completes
CompletedJob(j, message, results) ==
    [j EXCEPT !.status = "completed", !.progress = 100, !.message = message,
              !.results = results]

\* the answers of workflow.discover() as process_single_company stores them
JobResults ==
    {[locations |-> locs] : locs \in ListsUpTo(Tagged(SourcePool, "google_maps"),
                                               MaxCandidates)}

InitJobs ==
    /\ wf = "enhanced"
    /\ \E req \in Requests :
           state = [company_name |-> req.company_name,
                    company_url |-> req.company_url]
    /\ pc = "request"
    /\ job = <<>>
    /\ steps = 0
    /\ result = <<>>
    /\ last = [node |-> "none", kind |-> "none"]
    /\ raised = 0
    /\ environ = KeyedEnviron
    /\ workflow = KeyedWorkflow
    /\ cleanings = 0

\* POST /discover/single: the job is stored and the task is queued
discover_single_company ==
    /\ pc = "request"
    /\ job' = PendingJob("Job queued for processing")
    /\ pc' = "queued_single"
    /\ UNCHANGED <<wf, state, steps, result, last, raised, environ, workflow, cleanings>>

\* POST /discover/batch
discover_batch_companies ==
    /\ pc = "request"
    /\ job' = PendingJob("Batch job queued")
    /\ pc' = "queued_batch"
    /\ UNCHANGED <<wf, state, steps, result, last, raised, environ, workflow, cleanings>>

\* the first statement of a task, jobs_storage[job_id]["status"] = "running":
\* on a deleted job it raises KeyError, and so does the first statement of
\* the except clause, which leaves the task
task_begin(queued, running, progress, message) ==
    /\ pc = queued
    /\ IF job = <<>>
       THEN pc' = "crashed" /\ UNCHANGED job
       ELSE /\ pc' = running
            /\ job' = [job EXCEPT !.status = "running", !.progress = progress,
                                  !.message = message]
    /\ UNCHANGED <<wf, state, steps, result, last, raised, environ, workflow, cleanings>>

process_single_company_begin ==
    task_begin("queued_single", "running_single", 10, "Initializing discovery")

process_batch_companies_begin ==
    task_begin("queued_batch", "running_batch", 0, "Processing batch")

\* the rest of process_single_company: the cached result or the result of
\* discover() is stored, or an exception reaches the except clause
process_single_company_end ==
    /\ pc = "running_single"
    /\ \/ \E cached_result \in JobResults :
              job' = CompletedJob(job, "Completed using cached results", cached_result)
       \/ \E final_result \in JobResults :
              job' = CompletedJob(job, "Enhanced discovery completed", final_result)
       \/ \E progress \in {10, 20, 30, 90} :
              job' = FailedJob([job EXCEPT !.progress = progress],
                               "Error during processing")
    /\ pc' = "done"
    /\ UNCHANGED <<wf, state, steps, result, last, raised, environ, workflow, cleanings>>

\* process_batch_companies up to await asyncio.sleep(1), or up to the end of
\* its except clause
process_batch_companies_sleep ==
    /\ pc = "running_batch"
    /\ \/ /\ pc' = "sleeping"
          /\ job' = [job EXCEPT !.progress = 95,
                                !.message = "Finalizing batch results"]
       \/ /\ pc' = "done"
          /\ \E progress \in {0, 95} :
                 job' = FailedJob([job EXCEPT !.progress = progress],
                                  "Batch processing error")
    /\ UNCHANGED <<wf, state, steps, result, last, raised, environ, workflow, cleanings>>

\* process_batch_companies after the sleep: jobs_storage[job_id]["status"] =
\* "completed" raises KeyError on a deleted job, and so does the except clause
process_batch_companies_end ==
    /\ pc = "sleeping"
    /\ IF job = <<>>
       THEN pc' = "crashed" /\ UNCHANGED job
       ELSE /\ pc' = "done"
            /\ \E batch_result \in JobResults :
                   job' = CompletedJob(job, "Enhanced batch completed", batch_result)
    /\ UNCHANGED <<wf, state, steps, result, last, raised, environ, workflow, cleanings>>

\* the event loop can run a handler
HandlerCanRun == pc \in {"queued_single", "queued_batch", "sleeping", "done", "crashed"}

\* DELETE /jobs/{job_id}
delete_job ==
    /\ HandlerCanRun
    /\ job # <<>>
    /\ job' = <<>>
    /\ UNCHANGED <<wf, state, pc, steps, result, last, raised, environ, workflow, cleanings>>

\* GET /jobs/{job_id}/results
get_job_results ==
    /\ HandlerCanRun
    /\ result' = IF job = <<>> THEN [status_code |-> 404]
                 ELSE IF job.status # "completed" THEN [status_code |-> 400]
                 ELSE IF job.results = <<>> THEN [status_code |-> 404]
                 ELSE [status_code |-> 200, body |-> job.results]
    /\ UNCHANGED <<wf, state, pc, steps, job, last, raised, environ, workflow, cleanings>>

NextJobs ==
    \/ discover_single_company
    \/ discover_batch_companies
    \/ process_single_company_begin
    \/ process_batch_companies_begin
    \/ process_single_company_end
    \/ process_batch_companies_sleep
    \/ process_batch_companies_end
    \/ delete_job
    \/ get_job_results

SpecJobs == InitJobs /\ [][NextJobs]_vars

\* the moves of the status of a job that is in jobs_storage
JobStatusMoves ==
    {<<"pending", "running">>, <<"running", "completed">>, <<"running", "failed">>}

\* C36: the status of a stored job is one of pending, running, completed,
\* failed; it only moves pending -> running -> (completed | failed) and never
\* leaves completed or failed; results are non-null only with status
\* completed, and get_job_results answers with data only for a completed job.
C36_JobLifecycle ==
    [][/\ job' # <<>> =>
              /\ job'.status \in {"pending", "running", "completed", "failed"}
              /\ job'.results # <<>> => job'.status = "completed"
       /\ (job # <<>> /\ job' # <<>> /\ job'.status # job.status) =>
              <<job.status, job'.status>> \in JobStatusMoves
       /\ (result' # result /\ result'.status_code = 200) =>
              /\ job # <<>>
              /\ job.status = "completed"
              /\ result'.body = job.results]_vars

\* a completed job whose results get_job_results has returned
C36_Witness ==
    /\ pc = "done"
    /\ job # <<>>
    /\ job.status = "completed"
    /\ result # <<>>
    /\ result.status_code = 200
    /\ result.body = job.results

\* C37: under any interleaving of delete_job with the background task of the
\* job, the task never ends with an unhandled exception.
C37_TaskNeverCrashes == pc # "crashed"

\* C37: a deleted job never reappears in jobs_storage.
C37_DeletedStaysDeleted ==
    [][(job = <<>> /\ pc # "request") => job' = <<>>]_vars

\* C38: clean_and_validate_url is idempotent: cleaning a cleaned url gives the
\* cleaned url, for the url of the request and for the url of the session, so
\* the stages that clean the url of the session again get the stored value.
C38_CleanIdempotent ==
    /\ clean_and_validate_url(clean_and_validate_url(state.company_url))
           = clean_and_validate_url(state.company_url)
    /\ pc = "supervisor" =>
           clean_and_validate_url(state.company_url) = state.company_url

\* discover() has stored a url that got its protocol from the cleaning
C38_Witness ==
    /\ pc = "supervisor"
    /\ cleanings = 1
    /\ state.company_url = str_https \o <<"a", "/", "n">>

(***************************************************************************)
(* Sessions a caller hands to the graph with export_files or summary       *)
(* already set to an empty value: the supervisor tests the slots with      *)
(* "is not None", the exporter and the summary test them for truth.        *)
(***************************************************************************)
\* the values a caller presets a slot with: none, or the empty list or dict
Presets == {"absent", "empty"}

Preset(st, key, preset) == IF preset = "empty" THEN Put(st, key, <<>>) ELSE st

InitPreset ==
    /\ wf \in {"enhanced", "simplified"}
    /\ \E req \in Requests, list \in ListsUpTo(SourcePool, MaxCandidates),
          export_files \in Presets, summary \in Presets :
           state = Preset(Preset(AggregatedSession(wf, req,
                                     TaggedList(list, "google_maps"), <<>>),
                                 "export_files", export_files),
                          "summary", summary)
    /\ pc = "supervisor"
    /\ steps = StepsToAggregated(wf)
    /\ result = <<>>
    /\ last = [node |-> "aggregator", kind |-> "ok"]
    /\ raised = 0
    /\ job = [status |-> "running"]
    /\ environ = KeyedEnviron
    /\ workflow = KeyedWorkflow
    /\ cleanings = aggregated_cleanings(wf, state.company_url)

SpecPreset == InitPreset /\ [][NextListed]_vars

\* the guard of the exporter of the running workflow lets the body run on st
ExportBodyRuns(st) ==
    IF wf = "enhanced" THEN EnhancedExportNode_run(st, TRUE) # st
    ELSE SimplifiedExportNode_run(st) # st

\* the guard of the summary of the running workflow lets the body run on st
SummaryBodyRuns(st) ==
    IF wf = "enhanced" THEN SummaryNode_run(st, "none") # st
    ELSE SimplifiedSummaryNode_run(st) # st

\* the supervisor has routed to the exporter or the summary: the guard of the
\* stage lets the body run, and the slot is present when the stage returns
C39_RoutedStageRuns ==
    [][/\ (pc = "exporter" /\ pc' = "supervisor") =>
              (ExportBodyRuns(state) /\ Has(state', "export_files"))
       /\ (pc = "summary_generator" /\ pc' = "supervisor") =>
              (SummaryBodyRuns(state) /\ Has(state', "summary"))]_vars

====
